---------------------------- MODULE Spec2Model ----------------------------
(***************************************************************************)
(* A model of the mmcli part-naming engine (src/src/naming): the category  *)
(* detector, the template registry, the name assembler with its value      *)
(* transforms, and the fallback namer.  Text is kept as TLA+ strings; TLC  *)
(* evaluates Len, SubSeq and \o on them, so every string function of the   *)
(* source is computed character by character as the source computes it.    *)
(***************************************************************************)
EXTENDS Integers, Sequences, FiniteSets, TLC

VARIABLES record, category, name, analysis, input, converted, given_key, given_template, resolved,
          generators, calls, manager, outcome

vars == <<record, category, name, analysis, input, converted, given_key, given_template, resolved,
          generators, calls, manager, outcome>>

(***************************************************************************)
(* Rust's Option: None is the empty tuple, Some(v) the one-element tuple.  *)
(***************************************************************************)
None == <<>>

Some(v) == <<v>>

unwrap_or(opt, default) == IF opt = None THEN default ELSE opt[1]

(***************************************************************************)
(* The outcome of a call of a public function: not yet made, or returned   *)
(* with its value.                                                         *)
(***************************************************************************)
Pending == [tag |-> "pending"]

Returned(v) == [tag |-> "returned", val |-> v]

(***************************************************************************)
(* str and String operations of the Rust standard library.                 *)
(***************************************************************************)
UpperAlphabet == "ABCDEFGHIJKLMNOPQRSTUVWXYZ"

LowerAlphabet == "abcdefghijklmnopqrstuvwxyz"

AsciiDigits == "0123456789"

char_at(s, i) == SubSeq(s, i, i)

LowerOf == [c \in {char_at(UpperAlphabet, i) : i \in 1..Len(UpperAlphabet)} |->
              char_at(LowerAlphabet, CHOOSE i \in 1..Len(UpperAlphabet) : char_at(UpperAlphabet, i) = c)]

\* The uppercase of a lowercase character; that of the sharp s is two characters.
UpperOf == [c \in {char_at(LowerAlphabet, i) : i \in 1..Len(LowerAlphabet)} |->
              char_at(UpperAlphabet, CHOOSE i \in 1..Len(LowerAlphabet) : char_at(LowerAlphabet, i) = c)]
           @@ ("ß" :> "SS")

DigitChars == {char_at(AsciiDigits, i) : i \in 1..Len(AsciiDigits)}

is_ascii_digit(c) == c \in DigitChars

is_whitespace(c) == c \in {" ", "\t", "\n", "\r", "\f"}

\* A Rust binding holds the value its expression had when it was bound.
\* the({e : x \in {d}}) is e with x bound to the value of d.
the(S) == CHOOSE v \in S : TRUE

\* Character by character; the text is taken by halves, which keeps the
\* evaluation shallow.
RECURSIVE to_lowercase(_)
to_lowercase(text) ==
    the({IF s = "" THEN ""
         ELSE IF Len(s) = 1 THEN (IF s \in DOMAIN LowerOf THEN LowerOf[s] ELSE s)
         ELSE to_lowercase(SubSeq(s, 1, Len(s) \div 2)) \o to_lowercase(SubSeq(s, Len(s) \div 2 + 1, Len(s))) :
         s \in {text}})

RECURSIVE to_uppercase(_)
to_uppercase(text) ==
    the({IF s = "" THEN ""
         ELSE IF Len(s) = 1 THEN (IF s \in DOMAIN UpperOf THEN UpperOf[s] ELSE s)
         ELSE to_uppercase(SubSeq(s, 1, Len(s) \div 2)) \o to_uppercase(SubSeq(s, Len(s) \div 2 + 1, Len(s))) :
         s \in {text}})

eq_ignore_ascii_case(a, b) == to_lowercase(a) = to_lowercase(b)

starts_with(text, pattern) ==
    \E s \in {text}, pat \in {pattern} : Len(pat) <= Len(s) /\ SubSeq(s, 1, Len(pat)) = pat

ends_with(text, pattern) ==
    \E s \in {text}, pat \in {pattern} :
        Len(pat) <= Len(s) /\ SubSeq(s, Len(s) - Len(pat) + 1, Len(s)) = pat

contains(text, pattern) ==
    \E s \in {text}, pat \in {pattern} :
        \E i \in 1..(Len(s) - Len(pat) + 1) : SubSeq(s, i, i + Len(pat) - 1) = pat

strip_prefix(text, pattern) ==
    the({IF starts_with(s, pat) THEN Some(SubSeq(s, Len(pat) + 1, Len(s))) ELSE None :
         s \in {text}, pat \in {pattern}})

\* str::find: the position of the first match of a pattern in a text, or 0.
str_find(text, pattern) ==
    the({IF contains(s, pat)
         THEN CHOOSE i \in 1..Len(s) :
                 /\ SubSeq(s, i, i + Len(pat) - 1) = pat
                 /\ \A j \in 1..(i - 1) : SubSeq(s, j, j + Len(pat) - 1) # pat
         ELSE 0 : s \in {text}, pat \in {pattern}})

\* str::replace: the non-overlapping matches of a non-empty pattern, left to right.
RECURSIVE replace(_, _, _)
replace(text, from, to) ==
    the({IF i = 0 THEN s
         ELSE SubSeq(s, 1, i - 1) \o to \o replace(SubSeq(s, i + Len(from), Len(s)), from, to) :
         s \in {text}, i \in {str_find(text, from)}})

RECURSIVE trim_start(_)
trim_start(text) ==
    the({IF s # "" /\ is_whitespace(char_at(s, 1)) THEN trim_start(Tail(s)) ELSE s : s \in {text}})

RECURSIVE trim_end_matches(_, _)
trim_end_matches(text, c) ==
    the({IF s # "" /\ char_at(s, Len(s)) = c THEN trim_end_matches(SubSeq(s, 1, Len(s) - 1), c) ELSE s :
         s \in {text}})

RECURSIVE trim_end(_)
trim_end(text) ==
    the({IF s # "" /\ is_whitespace(char_at(s, Len(s))) THEN trim_end(SubSeq(s, 1, Len(s) - 1)) ELSE s :
         s \in {text}})

trim(s) == trim_end(trim_start(s))

\* The first position of one of the characters in a text, or 0.
position(text, chars) ==
    the({IF \E i \in 1..Len(s) : char_at(s, i) \in chars
         THEN CHOOSE i \in 1..Len(s) : char_at(s, i) \in chars /\ \A j \in 1..(i - 1) : char_at(s, j) \notin chars
         ELSE 0 : s \in {text}})

\* str::split on one character: at least one piece, empty pieces kept.
RECURSIVE split(_, _)
split(text, c) ==
    the({IF i = 0 THEN <<s>>
         ELSE <<SubSeq(s, 1, i - 1)>> \o split(SubSeq(s, i + 1, Len(s)), c) :
         s \in {text}, i \in {position(text, {c})}})

\* str::split_whitespace: the non-empty runs of non-whitespace characters.
split_whitespace(s) ==
    SelectSeq(split(replace(replace(replace(replace(s, "\t", " "), "\n", " "), "\r", " "), "\f", " "), " "),
              LAMBDA w : w # "")

RECURSIVE join(_, _)
join(slice, sep) ==
    the({IF parts = <<>> THEN ""
         ELSE IF Len(parts) = 1 THEN parts[1]
         ELSE parts[1] \o sep \o join(Tail(parts), sep) : parts \in {slice}})

take(iter, n) == the({SubSeq(s, 1, IF Len(s) < n THEN Len(s) ELSE n) : s \in {iter}})

Range(f) == {f[i] : i \in DOMAIN f}

\* Iterator::find over a slice, given the positions that satisfy the test:
\* the element at the first of them.
find(slice, positions) ==
    the({IF hits = {} THEN None ELSE Some(seq[CHOOSE i \in hits : \A j \in hits : i <= j]) :
         seq \in {slice}, hits \in {positions}})

\* The last element of a slice.
last(slice) == the({IF seq = <<>> THEN None ELSE Some(seq[Len(seq)]) : seq \in {slice}})

first(slice) == the({IF seq = <<>> THEN None ELSE Some(seq[1]) : seq \in {slice}})

(***************************************************************************)
(* The product record and its specifications (models/product.rs).          *)
(***************************************************************************)
Specification(attribute, values) == [attribute |-> attribute, values |-> values]

ProductDetail(part_number, detail_description, family_description, product_category, specifications) ==
    [part_number |-> part_number,
     detail_description |-> detail_description,
     family_description |-> family_description,
     product_category |-> product_category,
     specifications |-> specifications]

\* The positions of the specifications whose attribute is the name, ignoring ASCII case.
named(specifications, attribute) ==
    {i \in 1..Len(specifications) : eq_ignore_ascii_case(specifications[i].attribute, attribute)}

\* The positions of the specifications whose attribute is exactly the name.
named_exactly(specifications, attribute) ==
    {i \in 1..Len(specifications) : specifications[i].attribute = attribute}

\* product.specifications.iter().find(|s| s.attribute.eq_ignore_ascii_case(attribute))
find_spec(product, attribute) ==
    the({find(specs, named(specs, key)) : specs \in {product.specifications}, key \in {attribute}})

(***************************************************************************)
(* Category detection (naming/detectors.rs).                               *)
(***************************************************************************)
\* The branch of determine_category taken by a thread-forming family, with
\* the generic test placed first.
determine_thread_forming_type_generic_first(family_lower) ==
    IF contains(family_lower, "screw") THEN "thread_forming_screw"
    ELSE IF contains(family_lower, "socket head") THEN "thread_forming_socket_head_screw"
    ELSE "thread_forming_screw"

\* The branch of determine_category taken by a thread-forming family.
determine_thread_forming_type(family_lower) ==
    IF contains(family_lower, "button head") /\ contains(family_lower, "screw") THEN "thread_forming_button_head_screw"
    ELSE IF contains(family_lower, "high socket head") /\ contains(family_lower, "screw") THEN "thread_forming_high_socket_head_screw"
    ELSE IF (contains(family_lower, "low socket head") \/ contains(family_lower, "low-profile socket head")) /\ contains(family_lower, "screw") THEN "thread_forming_low_socket_head_screw"
    ELSE IF contains(family_lower, "socket head") /\ contains(family_lower, "screw") THEN "thread_forming_socket_head_screw"
    ELSE IF contains(family_lower, "flat head") /\ contains(family_lower, "screw") THEN "thread_forming_flat_head_screw"
    ELSE IF contains(family_lower, "pan head") /\ contains(family_lower, "screw") THEN "thread_forming_pan_head_screw"
    ELSE IF contains(family_lower, "hex head") /\ contains(family_lower, "screw") THEN "thread_forming_hex_head_screw"
    ELSE IF contains(family_lower, "screw") THEN "thread_forming_screw"
    ELSE "thread_forming_screw"

\* The screw head branches of determine_category: each tests its phrase together
\* with "screw", and the chain is entered only by a family that contains "screw",
\* which is the test of its last branch.
determine_screw_type(family_lower) ==
    IF contains(family_lower, "button head") /\ contains(family_lower, "screw") THEN "button_head_screw"
    ELSE IF contains(family_lower, "high socket head") /\ contains(family_lower, "screw") THEN "high_socket_head_screw"
    ELSE IF (contains(family_lower, "low socket head") \/ contains(family_lower, "low-profile socket head")) /\ contains(family_lower, "screw") THEN "low_socket_head_screw"
    ELSE IF (contains(family_lower, "ultra low socket head") \/ contains(family_lower, "ultra low-profile socket head")) /\ contains(family_lower, "screw") THEN "ultra_low_socket_head_screw"
    ELSE IF contains(family_lower, "standard socket head") /\ contains(family_lower, "screw") THEN "standard_socket_head_screw"
    ELSE IF contains(family_lower, "socket head") /\ contains(family_lower, "screw") THEN "socket_head_screw"
    ELSE IF contains(family_lower, "narrow flat head") /\ contains(family_lower, "screw") THEN "narrow_flat_head_screw"
    ELSE IF contains(family_lower, "standard flat head") /\ contains(family_lower, "screw") THEN "standard_flat_head_screw"
    ELSE IF contains(family_lower, "undercut flat head") /\ contains(family_lower, "screw") THEN "undercut_flat_head_screw"
    ELSE IF contains(family_lower, "wide flat head") /\ contains(family_lower, "screw") THEN "wide_flat_head_screw"
    ELSE IF contains(family_lower, "flat head") /\ contains(family_lower, "screw") THEN "flat_head_screw"
    ELSE IF contains(family_lower, "pan head") /\ contains(family_lower, "screw") THEN "pan_head_screw"
    ELSE IF contains(family_lower, "hex head") /\ contains(family_lower, "screw") THEN "hex_head_screw"
    ELSE IF contains(family_lower, "standard oval head") /\ contains(family_lower, "screw") THEN "standard_oval_head_screw"
    ELSE IF contains(family_lower, "undercut oval head") /\ contains(family_lower, "screw") THEN "undercut_oval_head_screw"
    ELSE IF contains(family_lower, "oval head") /\ contains(family_lower, "screw") THEN "oval_head_screw"
    ELSE IF contains(family_lower, "square head") /\ contains(family_lower, "screw") THEN "square_head_screw"
    ELSE IF contains(family_lower, "binding head") /\ contains(family_lower, "screw") THEN "binding_head_screw"
    ELSE IF contains(family_lower, "carriage head") /\ contains(family_lower, "screw") THEN "carriage_head_screw"
    ELSE IF contains(family_lower, "cheese head") /\ contains(family_lower, "screw") THEN "cheese_head_screw"
    ELSE IF contains(family_lower, "fillister head") /\ contains(family_lower, "screw") THEN "fillister_head_screw"
    ELSE IF contains(family_lower, "pancake head") /\ contains(family_lower, "screw") THEN "pancake_head_screw"
    ELSE IF contains(family_lower, "round head") /\ contains(family_lower, "screw") THEN "round_head_screw"
    ELSE IF contains(family_lower, "truss head") /\ contains(family_lower, "screw") THEN "truss_head_screw"
    ELSE IF contains(family_lower, "rounded head") /\ contains(family_lower, "screw") THEN "rounded_head_screw"
    ELSE IF contains(family_lower, "12-point") /\ contains(family_lower, "screw") THEN "12_point_head_screw"
    ELSE IF contains(family_lower, "t-handle") /\ contains(family_lower, "screw") THEN "t_handle_screw"
    ELSE IF contains(family_lower, "t-slot") /\ contains(family_lower, "screw") THEN "t_slot_screw"
    ELSE IF contains(family_lower, "l-handle") /\ contains(family_lower, "screw") THEN "l_handle_screw"
    ELSE IF contains(family_lower, "domed") /\ contains(family_lower, "screw") THEN "domed_head_screw"
    ELSE IF contains(family_lower, "headless") /\ contains(family_lower, "screw") THEN "headless_screw"
    ELSE IF contains(family_lower, "pentagon") /\ contains(family_lower, "screw") THEN "pentagon_head_screw"
    ELSE IF contains(family_lower, "four arm thumb") /\ contains(family_lower, "screw") THEN "four_arm_thumb_screw"
    ELSE IF contains(family_lower, "hex thumb") /\ contains(family_lower, "screw") THEN "hex_thumb_screw"
    ELSE IF contains(family_lower, "multilobe thumb") /\ contains(family_lower, "screw") THEN "multilobe_thumb_screw"
    ELSE IF contains(family_lower, "rectangle thumb") /\ contains(family_lower, "screw") THEN "rectangle_thumb_screw"
    ELSE IF contains(family_lower, "round thumb") /\ contains(family_lower, "screw") THEN "round_thumb_screw"
    ELSE IF contains(family_lower, "spade thumb") /\ contains(family_lower, "screw") THEN "spade_thumb_screw"
    ELSE IF contains(family_lower, "two arm thumb") /\ contains(family_lower, "screw") THEN "two_arm_thumb_screw"
    ELSE IF contains(family_lower, "wing thumb") /\ contains(family_lower, "screw") THEN "wing_thumb_screw"
    ELSE IF contains(family_lower, "thumb") /\ contains(family_lower, "screw") THEN "thumb_screw"
    ELSE IF contains(family_lower, "captive panel") /\ contains(family_lower, "screw") THEN "captive_panel_screw"
    ELSE IF contains(family_lower, "hook") /\ contains(family_lower, "screw") THEN "hook_screw"
    ELSE IF contains(family_lower, "ring") /\ contains(family_lower, "screw") THEN "ring_screw"
    ELSE IF contains(family_lower, "eye") /\ contains(family_lower, "screw") THEN "eye_screw"
    ELSE IF contains(family_lower, "knob") /\ contains(family_lower, "screw") THEN "knob_screw"
    ELSE IF contains(family_lower, "threaded") /\ contains(family_lower, "screw") THEN "threaded_screw"
    ELSE IF contains(family_lower, "tee") /\ contains(family_lower, "screw") THEN "tee_screw"
    ELSE "generic_screw"

determine_washer_type(family_lower) ==
    IF contains(family_lower, "cup") THEN "cup_washer"
    ELSE IF contains(family_lower, "curved") THEN "curved_washer"
    ELSE IF contains(family_lower, "dished") THEN "dished_washer"
    ELSE IF contains(family_lower, "domed") THEN "domed_washer"
    ELSE IF contains(family_lower, "double clipped") \/ contains(family_lower, "double-clipped") THEN "double_clipped_washer"
    ELSE IF contains(family_lower, "clipped") THEN "clipped_washer"
    ELSE IF contains(family_lower, "hillside") THEN "hillside_washer"
    ELSE IF contains(family_lower, "notched") THEN "notched_washer"
    ELSE IF contains(family_lower, "perforated") THEN "perforated_washer"
    ELSE IF contains(family_lower, "pronged") THEN "pronged_washer"
    ELSE IF contains(family_lower, "rectangular") THEN "rectangular_washer"
    ELSE IF contains(family_lower, "sleeve") THEN "sleeve_washer"
    ELSE IF contains(family_lower, "slotted") THEN "slotted_washer"
    ELSE IF contains(family_lower, "spherical") THEN "spherical_washer"
    ELSE IF contains(family_lower, "split") THEN "split_washer"
    ELSE IF contains(family_lower, "square") THEN "square_washer"
    ELSE IF contains(family_lower, "tab") THEN "tab_washer"
    ELSE IF contains(family_lower, "tapered") THEN "tapered_washer"
    ELSE IF contains(family_lower, "tooth") THEN "tooth_washer"
    ELSE IF contains(family_lower, "wave") THEN "wave_washer"
    ELSE IF contains(family_lower, "wedge") THEN "wedge_washer"
    ELSE "flat_washer"

determine_nut_type(family_lower) ==
    IF contains(family_lower, "cotter pin") /\ (contains(family_lower, "locknut") \/ contains(family_lower, "lock nut")) THEN "cotter_pin_locknut"
    ELSE IF contains(family_lower, "distorted thread") /\ (contains(family_lower, "locknut") \/ contains(family_lower, "lock nut")) THEN "distorted_thread_locknut"
    ELSE IF contains(family_lower, "flex-top") /\ (contains(family_lower, "locknut") \/ contains(family_lower, "lock nut")) THEN "flex_top_locknut"
    ELSE IF contains(family_lower, "lock washer") /\ (contains(family_lower, "locknut") \/ contains(family_lower, "lock nut")) THEN "lock_washer_locknut"
    ELSE IF contains(family_lower, "nylon insert") \/ contains(family_lower, "nylon-insert") THEN "nylon_insert_locknut"
    ELSE IF contains(family_lower, "serrations") /\ (contains(family_lower, "locknut") \/ contains(family_lower, "lock nut")) THEN "serrations_locknut"
    ELSE IF contains(family_lower, "spring-stop") /\ (contains(family_lower, "locknut") \/ contains(family_lower, "lock nut")) THEN "spring_stop_locknut"
    ELSE IF contains(family_lower, "steel insert") /\ (contains(family_lower, "locknut") \/ contains(family_lower, "lock nut")) THEN "steel_insert_locknut"
    ELSE IF contains(family_lower, "locknut") \/ contains(family_lower, "lock nut") THEN "generic_locknut"
    ELSE IF contains(family_lower, "acorn nut") \/ contains(family_lower, "acornnut") THEN "acorn_nut"
    ELSE IF contains(family_lower, "barrel nut") THEN "barrel_nut"
    ELSE IF contains(family_lower, "cage nut") THEN "cage_nut"
    ELSE IF contains(family_lower, "castle nut") THEN "castle_nut"
    ELSE IF contains(family_lower, "clinch nut") THEN "clinch_nut"
    ELSE IF contains(family_lower, "coupling nut") THEN "coupling_nut"
    ELSE IF contains(family_lower, "flange nut") \/ contains(family_lower, "flangenut") THEN "flange_nut"
    ELSE IF contains(family_lower, "hex nut") \/ contains(family_lower, "hexnut") THEN "hex_nut"
    ELSE IF contains(family_lower, "jam nut") THEN "jam_nut"
    ELSE IF contains(family_lower, "knurled thumb nut") THEN "knurled_thumb_nut"
    ELSE IF contains(family_lower, "machine screw nut") THEN "machine_screw_nut"
    ELSE IF contains(family_lower, "panel nut") THEN "panel_nut"
    ELSE IF contains(family_lower, "push on nut") \/ contains(family_lower, "push-on nut") THEN "push_on_nut"
    ELSE IF contains(family_lower, "rivet nut") THEN "rivet_nut"
    ELSE IF contains(family_lower, "round nut") THEN "round_nut"
    ELSE IF contains(family_lower, "screw mount") THEN "screw_mount_nut"
    ELSE IF contains(family_lower, "snap in") \/ contains(family_lower, "snap-in") THEN "snap_in_nut"
    ELSE IF contains(family_lower, "socket nut") THEN "socket_nut"
    ELSE IF contains(family_lower, "speed") THEN "speed_nut"
    ELSE IF contains(family_lower, "square") THEN "square_nut"
    ELSE IF contains(family_lower, "tamper resistant") \/ contains(family_lower, "tamper-resistant") THEN "tamper_resistant_nut"
    ELSE IF contains(family_lower, "threadless") THEN "threadless_nut"
    ELSE IF contains(family_lower, "thumb") THEN "thumb_nut"
    ELSE IF contains(family_lower, "tube end") THEN "tube_end_nut"
    ELSE IF contains(family_lower, "twist close") \/ contains(family_lower, "twist-close") THEN "twist_close_nut"
    ELSE IF contains(family_lower, "weld") THEN "weld_nut"
    ELSE IF contains(family_lower, "with pilot hole") THEN "with_pilot_hole_nut"
    ELSE IF contains(family_lower, "wing nut") \/ contains(family_lower, "wingnut") THEN "wing_nut"
    ELSE IF contains(family_lower, "cap nut") \/ contains(family_lower, "capnut") THEN "cap_nut"
    ELSE "generic_nut"

determine_standoff_type(family_lower) ==
    IF contains(family_lower, "male-female") \/ contains(family_lower, "male female") THEN "male_female_hex_standoff"
    ELSE IF contains(family_lower, "female") /\ contains(family_lower, "threaded") THEN "female_hex_standoff"
    ELSE "generic_standoff"

determine_spacer_type(family_lower) ==
    IF contains(family_lower, "aluminum") THEN "aluminum_unthreaded_spacer"
    ELSE IF contains(family_lower, "stainless steel") \/ contains(family_lower, "18-8") \/ contains(family_lower, "316") THEN "stainless_steel_unthreaded_spacer"
    ELSE IF contains(family_lower, "nylon") THEN "nylon_unthreaded_spacer"
    ELSE "unthreaded_spacer"

determine_pin_type(family_lower) ==
    IF contains(family_lower, "clevis pin with retaining ring groove") THEN "clevis_pin_with_retaining_ring_groove"
    ELSE IF contains(family_lower, "clevis pin") THEN "clevis_pin"
    ELSE "generic_pin"

determine_shaft_collar_type(family_lower) ==
    IF contains(family_lower, "face-mount shaft collar") \/ contains(family_lower, "face mount shaft collar") THEN "face_mount_shaft_collar"
    ELSE IF contains(family_lower, "flange-mount shaft collar") \/ contains(family_lower, "flange mount shaft collar") THEN "flange_mount_shaft_collar"
    ELSE "generic_shaft_collar"

determine_bearing_type(product) ==
    the({
    LET plain_type == IF plain_spec = None THEN "" ELSE unwrap_or(first(plain_spec[1].values), "")
    IN  IF contains(family_lower, "mounted") \/ contains(category_lower, "mounted") THEN
            the({
            LET mount_type == IF mount_spec = None THEN ""
                              ELSE to_lowercase(unwrap_or(first(mount_spec[1].values), ""))
            IN  IF contains(mount_type, "two-bolt flange") \/ contains(mount_type, "flange") THEN
                    IF \/ contains(family_lower, "low-profile") \/ contains(family_lower, "low profile")
                       \/ contains(description_lower, "low-profile") \/ contains(description_lower, "low profile")
                    THEN "low_profile_flange_mounted_ball_bearing"
                    ELSE "flange_mounted_ball_bearing"
                ELSE IF contains(mount_type, "pillow") THEN "pillow_block_mounted_ball_bearing"
                ELSE "generic_mounted_bearing" :
            mount_spec \in {find_spec(product, "Mounted Bearing Type")},
            description_lower \in {to_lowercase(product.detail_description)}})
        ELSE IF contains(family_lower, "flanged") \/ eq_ignore_ascii_case(plain_type, "Flanged") THEN
            IF contains(family_lower, "sleeve") \/ contains(family_lower, "plain")
            THEN "flanged_sleeve_bearing"
            ELSE "flanged_bearing"
        ELSE IF contains(family_lower, "sleeve") \/ contains(family_lower, "plain") THEN "sleeve_bearing"
        ELSE IF contains(family_lower, "ball") THEN "ball_bearing"
        ELSE IF contains(family_lower, "linear") THEN "linear_bearing"
        ELSE IF contains(family_lower, "needle") THEN "needle_bearing"
        ELSE IF contains(family_lower, "roller") THEN "roller_bearing"
        ELSE "generic_bearing" :
    family_lower \in {to_lowercase(product.family_description)},
    category_lower \in {to_lowercase(product.product_category)},
    plain_spec \in {find_spec(product, "Plain Bearing Type")}})

determine_pulley_type(family_lower) ==
    IF contains(family_lower, "wire rope") THEN "wire_rope_pulley"
    ELSE IF contains(family_lower, "rope") /\ ~contains(family_lower, "wire") THEN "rope_pulley"
    ELSE IF contains(family_lower, "v-belt") \/ contains(family_lower, "belt") THEN "v_belt_pulley"
    ELSE IF contains(family_lower, "sheave") THEN "sheave"
    ELSE "pulley"

\* The classification reading the descriptions as they are written.
determine_category_as_written(product) ==
    the({
        IF contains(family_lower, "thread-forming") \/ contains(family_lower, "thread forming")
        THEN determine_thread_forming_type(family_lower)
        ELSE IF contains(family_lower, "screw") THEN determine_screw_type(family_lower)
        ELSE IF contains(family_lower, "washer") THEN determine_washer_type(family_lower)
        ELSE IF contains(category_lower, "nuts") \/ contains(category_lower, "nut") \/ contains(family_lower, "nut")
        THEN determine_nut_type(family_lower)
        ELSE IF contains(family_lower, "unthreaded spacer") \/ (contains(category_lower, "spacers") /\ contains(family_lower, "spacer"))
        THEN determine_spacer_type(family_lower)
        ELSE IF contains(category_lower, "standoffs") \/ contains(category_lower, "standoff") \/ contains(family_lower, "standoff")
        THEN determine_standoff_type(family_lower)
        ELSE IF contains(category_lower, "bearing") \/ contains(family_lower, "bearing")
        THEN determine_bearing_type(product)
        ELSE IF contains(category_lower, "pins") \/ contains(family_lower, "pin")
        THEN determine_pin_type(family_lower)
        ELSE IF contains(category_lower, "shaft collars") \/ contains(family_lower, "shaft collar")
        THEN determine_shaft_collar_type(family_lower)
        ELSE IF contains(category_lower, "pulleys") \/ contains(family_lower, "pulley") \/ contains(family_lower, "sheave")
        THEN determine_pulley_type(family_lower)
        ELSE "unknown" :
    family_lower \in {product.family_description},
    category_lower \in {product.product_category}})

determine_category(product) ==
    the({
        IF contains(family_lower, "thread-forming") \/ contains(family_lower, "thread forming")
        THEN determine_thread_forming_type(family_lower)
        ELSE IF contains(family_lower, "screw") THEN determine_screw_type(family_lower)
        ELSE IF contains(family_lower, "washer") THEN determine_washer_type(family_lower)
        ELSE IF contains(category_lower, "nuts") \/ contains(category_lower, "nut") \/ contains(family_lower, "nut")
        THEN determine_nut_type(family_lower)
        ELSE IF contains(family_lower, "unthreaded spacer") \/ (contains(category_lower, "spacers") /\ contains(family_lower, "spacer"))
        THEN determine_spacer_type(family_lower)
        ELSE IF contains(category_lower, "standoffs") \/ contains(category_lower, "standoff") \/ contains(family_lower, "standoff")
        THEN determine_standoff_type(family_lower)
        ELSE IF contains(category_lower, "bearing") \/ contains(family_lower, "bearing")
        THEN determine_bearing_type(product)
        ELSE IF contains(category_lower, "pins") \/ contains(family_lower, "pin")
        THEN determine_pin_type(family_lower)
        ELSE IF contains(category_lower, "shaft collars") \/ contains(family_lower, "shaft collar")
        THEN determine_shaft_collar_type(family_lower)
        ELSE IF contains(category_lower, "pulleys") \/ contains(family_lower, "pulley") \/ contains(family_lower, "sheave")
        THEN determine_pulley_type(family_lower)
        ELSE "unknown" :
    family_lower \in {to_lowercase(product.family_description)},
    category_lower \in {to_lowercase(product.product_category)}})

(***************************************************************************)
(* The template registry (naming/generator.rs, naming/templates).          *)
(***************************************************************************)
NamingTemplate(prefix, key_specs, spec_aliases, spec_abbreviations) ==
    [prefix |-> prefix,
     key_specs |-> key_specs,
     spec_aliases |-> spec_aliases,
     spec_abbreviations |-> spec_abbreviations]

\* HashMap::get
get(map, key) == IF key \in DOMAIN map THEN Some(map[key]) ELSE None

screw_abbrevs ==
    ("316 Stainless Steel" :> "SS316") @@
    ("18-8 Stainless Steel" :> "SS188") @@
    ("Stainless Steel" :> "SS") @@
    ("Steel" :> "S") @@
    ("Alloy Steel" :> "S") @@
    ("Brass" :> "Brass") @@
    ("Aluminum" :> "AL") @@
    ("Nylon" :> "Nylon") @@
    ("Plastic" :> "Plastic") @@
    ("Grade 1 Steel" :> "SG1") @@
    ("Grade 2 Steel" :> "SG2") @@
    ("Grade 5 Steel" :> "SG5") @@
    ("Grade 8 Steel" :> "SG8") @@
    ("8.8 Steel" :> "S8.8") @@
    ("10.9 Steel" :> "S10.9") @@
    ("12.9 Steel" :> "S12.9") @@
    ("Grade 1 Alloy Steel" :> "SG1") @@
    ("Grade 2 Alloy Steel" :> "SG2") @@
    ("Grade 5 Alloy Steel" :> "SG5") @@
    ("Grade 8 Alloy Steel" :> "SG8") @@
    ("8.8 Alloy Steel" :> "S8.8") @@
    ("10.9 Alloy Steel" :> "S10.9") @@
    ("12.9 Alloy Steel" :> "S12.9") @@
    ("Zinc Plated" :> "ZP") @@
    ("Zinc-Plated" :> "ZP") @@
    ("Zinc Yellow-Chromate Plated" :> "ZYC") @@
    ("Zinc Yellow Chromate Plated" :> "ZYC") @@
    ("Black Oxide" :> "BO") @@
    ("Black-Oxide" :> "BO") @@
    ("Cadmium Plated" :> "CD") @@
    ("Cadmium-Plated" :> "CD") @@
    ("Nickel Plated" :> "NI") @@
    ("Nickel-Plated" :> "NI") @@
    ("Chrome Plated" :> "CR") @@
    ("Chrome-Plated" :> "CR") @@
    ("Galvanized" :> "GAL") @@
    ("External Hex" :> "EHEX") @@
    ("Hex" :> "HEX") @@
    ("Phillips" :> "PH") @@
    ("Torx" :> "TX") @@
    ("Torx Plus" :> "TXP") @@
    ("Slotted" :> "SL") @@
    ("Square" :> "SQUARE") @@
    ("Tamper-Resistant Hex" :> "TRHEX") @@
    ("Tamper-Resistant Torx" :> "TRTX") @@
    ("PozidrivÂ®" :> "PZ") @@
    ("Pozidriv" :> "PZ") @@
    ("6-Lobe" :> "6L") @@
    ("12-Point" :> "12PT") @@
    ("Double Hex" :> "DHEX") @@
    ("Splined" :> "SPL") @@
    ("Triangle" :> "TRI") @@
    ("Spline" :> "SP") @@
    ("Clutch" :> "CLU") @@
    ("One-Way" :> "1WAY") @@
    ("Pin-in-Torx" :> "PINTX") @@
    ("Pin Hex" :> "PINHEX")

washer_abbrevs ==
    ("316 Stainless Steel" :> "SS316") @@
    ("18-8 Stainless Steel" :> "SS188") @@
    ("Stainless Steel" :> "SS") @@
    ("Steel" :> "Steel") @@
    ("Alloy Steel" :> "Steel") @@
    ("Brass" :> "Brass") @@
    ("Aluminum" :> "AL") @@
    ("Nylon" :> "Nylon") @@
    ("Plastic" :> "Plastic") @@
    ("Rubber" :> "Rubber") @@
    ("Spring Steel" :> "Steel") @@
    ("Zinc Plated" :> "ZP") @@
    ("Zinc-Plated" :> "ZP") @@
    ("Zinc Yellow-Chromate Plated" :> "ZYC") @@
    ("Zinc Yellow Chromate Plated" :> "ZYC") @@
    ("Black Oxide" :> "BO") @@
    ("Black-Oxide" :> "BO") @@
    ("Cadmium Plated" :> "CD") @@
    ("Cadmium-Plated" :> "CD") @@
    ("Nickel Plated" :> "NI") @@
    ("Nickel-Plated" :> "NI") @@
    ("Chrome Plated" :> "CR") @@
    ("Chrome-Plated" :> "CR") @@
    ("Galvanized" :> "GAL")

nut_abbrevs ==
    ("316 Stainless Steel" :> "SS316") @@
    ("18-8 Stainless Steel" :> "SS188") @@
    ("Stainless Steel" :> "SS") @@
    ("Steel" :> "S") @@
    ("Alloy Steel" :> "S") @@
    ("Brass" :> "Brass") @@
    ("Aluminum" :> "AL") @@
    ("Nylon" :> "Nylon") @@
    ("Plastic" :> "Plastic") @@
    ("Grade 1 Steel" :> "SG1") @@
    ("Grade 2 Steel" :> "SG2") @@
    ("Grade 5 Steel" :> "SG5") @@
    ("Grade 8 Steel" :> "SG8") @@
    ("8.8 Steel" :> "S8.8") @@
    ("10.9 Steel" :> "S10.9") @@
    ("12.9 Steel" :> "S12.9") @@
    ("Grade 1 Alloy Steel" :> "SG1") @@
    ("Grade 2 Alloy Steel" :> "SG2") @@
    ("Grade 5 Alloy Steel" :> "SG5") @@
    ("Grade 8 Alloy Steel" :> "SG8") @@
    ("8.8 Alloy Steel" :> "S8.8") @@
    ("10.9 Alloy Steel" :> "S10.9") @@
    ("12.9 Alloy Steel" :> "S12.9") @@
    ("Zinc Plated" :> "ZP") @@
    ("Zinc-Plated" :> "ZP") @@
    ("Zinc Yellow-Chromate Plated" :> "ZYC") @@
    ("Zinc Yellow Chromate Plated" :> "ZYC") @@
    ("Black Oxide" :> "BO") @@
    ("Black-Oxide" :> "BO") @@
    ("Cadmium Plated" :> "CD") @@
    ("Cadmium-Plated" :> "CD") @@
    ("Nickel Plated" :> "NI") @@
    ("Nickel-Plated" :> "NI") @@
    ("Chrome Plated" :> "CR") @@
    ("Chrome-Plated" :> "CR") @@
    ("Galvanized" :> "GAL")

standoff_abbrevs ==
    ("316 Stainless Steel" :> "SS316") @@
    ("18-8 Stainless Steel" :> "SS188") @@
    ("Stainless Steel" :> "SS") @@
    ("Steel" :> "S") @@
    ("Alloy Steel" :> "S") @@
    ("Brass" :> "Brass") @@
    ("Aluminum" :> "AL") @@
    ("Nylon" :> "Nylon") @@
    ("Grade 1 Steel" :> "SG1") @@
    ("Grade 2 Steel" :> "SG2") @@
    ("Grade 5 Steel" :> "SG5") @@
    ("Grade 8 Steel" :> "SG8") @@
    ("8.8 Steel" :> "S8.8") @@
    ("10.9 Steel" :> "S10.9") @@
    ("12.9 Steel" :> "S12.9") @@
    ("Grade 1 Alloy Steel" :> "SG1") @@
    ("Grade 2 Alloy Steel" :> "SG2") @@
    ("Grade 5 Alloy Steel" :> "SG5") @@
    ("Grade 8 Alloy Steel" :> "SG8") @@
    ("8.8 Alloy Steel" :> "S8.8") @@
    ("10.9 Alloy Steel" :> "S10.9") @@
    ("12.9 Alloy Steel" :> "S12.9") @@
    ("Zinc Plated" :> "ZP") @@
    ("Zinc-Plated" :> "ZP") @@
    ("Zinc Yellow-Chromate Plated" :> "ZYC") @@
    ("Zinc Yellow Chromate Plated" :> "ZYC") @@
    ("Black Oxide" :> "BO") @@
    ("Black-Oxide" :> "BO") @@
    ("Cadmium Plated" :> "CD") @@
    ("Cadmium-Plated" :> "CD") @@
    ("Nickel Plated" :> "NI") @@
    ("Nickel-Plated" :> "NI") @@
    ("Chrome Plated" :> "CR") @@
    ("Chrome-Plated" :> "CR") @@
    ("Galvanized" :> "GAL")

spacer_abbrevs ==
    ("Acetal Plastic" :> "ACET") @@
    ("Acetal" :> "ACET") @@
    ("Polyethylene" :> "PE") @@
    ("Polypropylene" :> "PP") @@
    ("PEEK" :> "PEEK") @@
    ("PTFE" :> "PTFE") @@
    ("Polycarbonate" :> "PC") @@
    ("316 Stainless Steel" :> "SS316") @@
    ("18-8 Stainless Steel" :> "SS188") @@
    ("Stainless Steel" :> "SS") @@
    ("Steel" :> "S") @@
    ("Alloy Steel" :> "S") @@
    ("Brass" :> "Brass") @@
    ("Aluminum" :> "AL") @@
    ("Nylon" :> "Nylon") @@
    ("Titanium" :> "TI") @@
    ("Zinc Plated" :> "ZP") @@
    ("Zinc-Plated" :> "ZP") @@
    ("Zinc Yellow-Chromate Plated" :> "ZYC") @@
    ("Zinc Yellow Chromate Plated" :> "ZYC") @@
    ("Black Oxide" :> "BO") @@
    ("Black-Oxide" :> "BO") @@
    ("Cadmium Plated" :> "CD") @@
    ("Cadmium-Plated" :> "CD") @@
    ("Nickel Plated" :> "NI") @@
    ("Nickel-Plated" :> "NI") @@
    ("Chrome Plated" :> "CR") @@
    ("Chrome-Plated" :> "CR") @@
    ("Galvanized" :> "GAL") @@
    ("Black Anodized" :> "BA") @@
    ("Black-Anodized" :> "BA")

pin_abbrevs ==
    ("316 Stainless Steel" :> "SS316") @@
    ("18-8 Stainless Steel" :> "SS188") @@
    ("Stainless Steel" :> "SS") @@
    ("Steel" :> "S") @@
    ("Alloy Steel" :> "S") @@
    ("Brass" :> "Brass") @@
    ("Aluminum" :> "AL") @@
    ("Titanium" :> "TI") @@
    ("Grade 1 Steel" :> "SG1") @@
    ("Grade 2 Steel" :> "SG2") @@
    ("Grade 5 Steel" :> "SG5") @@
    ("Grade 8 Steel" :> "SG8") @@
    ("8.8 Steel" :> "S8.8") @@
    ("10.9 Steel" :> "S10.9") @@
    ("12.9 Steel" :> "S12.9") @@
    ("Zinc Plated" :> "ZP") @@
    ("Zinc-Plated" :> "ZP") @@
    ("Zinc Yellow-Chromate Plated" :> "ZYC") @@
    ("Zinc Yellow Chromate Plated" :> "ZYC") @@
    ("Black Oxide" :> "BO") @@
    ("Black-Oxide" :> "BO") @@
    ("Cadmium Plated" :> "CD") @@
    ("Cadmium-Plated" :> "CD") @@
    ("Nickel Plated" :> "NI") @@
    ("Nickel-Plated" :> "NI") @@
    ("Chrome Plated" :> "CR") @@
    ("Chrome-Plated" :> "CR") @@
    ("Galvanized" :> "GAL") @@
    ("Retaining Ring Groove" :> "RRG") @@
    ("Plain" :> "")

bearing_abbrevs ==
    ("MDS-Filled Nylon Plastic" :> "MDSNYL") @@
    ("MDS-Filled Nylon" :> "MDSNYL") @@
    ("Nylon Plastic" :> "NYL") @@
    ("Bronze SAE 841" :> "BR841") @@
    ("Bronze SAE 863" :> "BR863") @@
    ("Cast Bronze" :> "CB") @@
    ("Oil-Filled Bronze" :> "OFB") @@
    ("PTFE" :> "PTFE") @@
    ("Rulon" :> "RUL") @@
    ("Graphite" :> "GRAPH") @@
    ("Steel-Backed PTFE" :> "SBPTFE") @@
    ("Bronze" :> "BR") @@
    ("Steel" :> "S") @@
    ("Stainless Steel" :> "SS") @@
    ("303 Stainless Steel" :> "SS303") @@
    ("Aluminum" :> "AL") @@
    ("Plastic" :> "PL")

collar_abbrevs ==
    ("303 Stainless Steel" :> "SS303") @@
    ("1215 Carbon Steel" :> "1215S") @@
    pin_abbrevs


screw_size_aliases ==
    ("For Screw Size" :> <<"For Screw Size", "For Screw Size">>)

screw_templates ==
    ("button_head_screw" :> NamingTemplate("BHS", <<"Material", "Thread Size", "Length", "Drive Style", "Finish">>, None, screw_abbrevs)) @@
    ("socket_head_screw" :> NamingTemplate("SHS", <<"Material", "Thread Size", "Length", "Drive Style", "Finish">>, None, screw_abbrevs)) @@
    ("high_socket_head_screw" :> NamingTemplate("HSHS", <<"Material", "Thread Size", "Length", "Drive Style", "Finish">>, None, screw_abbrevs)) @@
    ("low_socket_head_screw" :> NamingTemplate("LSHS", <<"Material", "Thread Size", "Length", "Drive Style", "Finish">>, None, screw_abbrevs)) @@
    ("ultra_low_socket_head_screw" :> NamingTemplate("ULSHS", <<"Material", "Thread Size", "Length", "Drive Style", "Finish">>, None, screw_abbrevs)) @@
    ("standard_socket_head_screw" :> NamingTemplate("SSHS", <<"Material", "Thread Size", "Length", "Drive Style", "Finish">>, None, screw_abbrevs)) @@
    ("flat_head_screw" :> NamingTemplate("FHS", <<"Material", "Thread Size", "Length", "Drive Style", "Finish">>, None, screw_abbrevs)) @@
    ("narrow_flat_head_screw" :> NamingTemplate("NFHS", <<"Material", "Thread Size", "Length", "Drive Style", "Finish">>, None, screw_abbrevs)) @@
    ("standard_flat_head_screw" :> NamingTemplate("SFHS", <<"Material", "Thread Size", "Length", "Drive Style", "Finish">>, None, screw_abbrevs)) @@
    ("undercut_flat_head_screw" :> NamingTemplate("UFHS", <<"Material", "Thread Size", "Length", "Drive Style", "Finish">>, None, screw_abbrevs)) @@
    ("wide_flat_head_screw" :> NamingTemplate("WFHS", <<"Material", "Thread Size", "Length", "Drive Style", "Finish">>, None, screw_abbrevs)) @@
    ("pan_head_screw" :> NamingTemplate("PHS", <<"Material", "Thread Size", "Length", "Drive Style", "Finish">>, None, screw_abbrevs)) @@
    ("hex_head_screw" :> NamingTemplate("HHS", <<"Material", "Thread Size", "Length", "Drive Style", "Finish">>, None, screw_abbrevs)) @@
    ("rounded_head_screw" :> NamingTemplate("RHS", <<"Material", "Thread Size", "Length", "Drive Style", "Finish">>, None, screw_abbrevs)) @@
    ("generic_screw" :> NamingTemplate("SCREW", <<"Material", "Thread Size", "Length", "Finish">>, None, screw_abbrevs)) @@
    ("thumb_screw" :> NamingTemplate("THUMB", <<"Material", "Thread Size", "Length", "Finish">>, None, screw_abbrevs)) @@
    ("eye_screw" :> NamingTemplate("EYE", <<"Material", "Thread Size", "Length", "Finish">>, None, screw_abbrevs)) @@
    ("hook_screw" :> NamingTemplate("HOOK", <<"Material", "Thread Size", "Length", "Finish">>, None, screw_abbrevs))

washer_types ==
    <<<<"cup_washer", "CW">>,
      <<"curved_washer", "CRVW">>,
      <<"dished_washer", "DW">>,
      <<"domed_washer", "DMW">>,
      <<"double_clipped_washer", "DCW">>,
      <<"clipped_washer", "CLW">>,
      <<"flat_washer", "FW">>,
      <<"hillside_washer", "HW">>,
      <<"notched_washer", "NW">>,
      <<"perforated_washer", "PW">>,
      <<"pronged_washer", "PRW">>,
      <<"rectangular_washer", "RW">>,
      <<"sleeve_washer", "SW">>,
      <<"slotted_washer", "SLW">>,
      <<"spherical_washer", "SPW">>,
      <<"split_washer", "SPLW">>,
      <<"square_washer", "SQW">>,
      <<"tab_washer", "TW">>,
      <<"tapered_washer", "TPW">>,
      <<"tooth_washer", "TOW">>,
      <<"wave_washer", "WW">>,
      <<"wedge_washer", "WDW">>>>

washer_templates ==
    [washer_type \in {t[1] : t \in Range(washer_types)} |->
        NamingTemplate((CHOOSE t \in Range(washer_types) : t[1] = washer_type)[2],
                       <<"Material", "For Screw Size", "Finish">>, None, washer_abbrevs)]

locking_types ==
    <<"cotter_pin_locknut", "distorted_thread_locknut", "flex_top_locknut", "lock_washer_locknut", "serrations_locknut", "spring_stop_locknut", "steel_insert_locknut">>

specialty_nuts ==
    <<<<"acorn_nut", "AN">>,
      <<"barrel_nut", "BN">>,
      <<"cage_nut", "CAGEN">>,
      <<"castle_nut", "CASN">>,
      <<"clinch_nut", "CLIN">>,
      <<"coupling_nut", "COUPN">>,
      <<"jam_nut", "JN">>,
      <<"knurled_thumb_nut", "KTN">>,
      <<"machine_screw_nut", "MSN">>,
      <<"panel_nut", "PN">>,
      <<"push_on_nut", "PON">>,
      <<"rivet_nut", "RN">>,
      <<"round_nut", "ROUNDN">>,
      <<"screw_mount_nut", "SMN">>,
      <<"snap_in_nut", "SIN">>,
      <<"socket_nut", "SN">>,
      <<"speed_nut", "SPEEDN">>,
      <<"square_nut", "SQN">>,
      <<"tamper_resistant_nut", "TRN">>,
      <<"threadless_nut", "TLN">>,
      <<"thumb_nut", "TN">>,
      <<"tube_end_nut", "TEN">>,
      <<"twist_close_nut", "TCN">>,
      <<"weld_nut", "WLN">>,
      <<"with_pilot_hole_nut", "PHN">>>>

nut_templates ==
    ("hex_nut" :> NamingTemplate("HN", <<"Material", "Thread Size", "Finish">>, None, nut_abbrevs)) @@
    ("wing_nut" :> NamingTemplate("WN", <<"Material", "Thread Size", "Finish">>, None, nut_abbrevs)) @@
    ("cap_nut" :> NamingTemplate("CN", <<"Material", "Thread Size", "Finish">>, None, nut_abbrevs)) @@
    ("flange_nut" :> NamingTemplate("FN", <<"Material", "Thread Size", "Finish">>, None, nut_abbrevs)) @@
    ("generic_nut" :> NamingTemplate("N", <<"Material", "Thread Size", "Finish">>, None, nut_abbrevs)) @@
    ("nylon_insert_locknut" :> NamingTemplate("LN", <<"Material", "Thread Size", "Finish">>, None, nut_abbrevs)) @@
    ("generic_locknut" :> NamingTemplate("LN", <<"Material", "Thread Size", "Finish">>, None, nut_abbrevs)) @@
    [nut_type \in Range(locking_types) |->
        NamingTemplate("LN", <<"Material", "Thread Size", "Finish">>, None, nut_abbrevs)] @@
    [nut_type \in {t[1] : t \in Range(specialty_nuts)} |->
        NamingTemplate((CHOOSE t \in Range(specialty_nuts) : t[1] = nut_type)[2],
                       <<"Material", "Thread Size", "Finish">>, None, nut_abbrevs)]

standoff_templates ==
    ("male_female_hex_standoff" :> NamingTemplate("MFSO", <<"Material", "Thread Size", "Length", "Finish">>, None, standoff_abbrevs)) @@
    ("female_hex_standoff" :> NamingTemplate("FSO", <<"Material", "Thread Size", "Length", "Finish">>, None, standoff_abbrevs)) @@
    ("generic_standoff" :> NamingTemplate("SO", <<"Material", "Thread Size", "Length", "Finish">>, None, standoff_abbrevs))

spacer_templates ==
    ("unthreaded_spacer" :> NamingTemplate("SP", <<"Material", "For Screw Size", "OD", "Length", "Finish">>, Some(screw_size_aliases), spacer_abbrevs)) @@
    ("aluminum_unthreaded_spacer" :> NamingTemplate("ASP", <<"Material", "For Screw Size", "OD", "Length", "Finish">>, Some(screw_size_aliases), spacer_abbrevs)) @@
    ("stainless_steel_unthreaded_spacer" :> NamingTemplate("SSSP", <<"Material", "For Screw Size", "OD", "Length", "Finish">>, Some(screw_size_aliases), spacer_abbrevs)) @@
    ("nylon_unthreaded_spacer" :> NamingTemplate("NSP", <<"Material", "For Screw Size", "OD", "Length">>, Some(screw_size_aliases), spacer_abbrevs))

pin_templates ==
    ("clevis_pin" :> NamingTemplate("CP", <<"Material", "Diameter", "Usable Length", "Finish">>, None, pin_abbrevs)) @@
    ("clevis_pin_with_retaining_ring_groove" :> NamingTemplate("CPRRG", <<"Material", "Diameter", "Usable Length", "Finish">>, None, pin_abbrevs)) @@
    ("face_mount_shaft_collar" :> NamingTemplate("FMSC", <<"Material", "For Shaft Diameter", "OD", "Width", "Finish">>, None, collar_abbrevs)) @@
    ("flange_mount_shaft_collar" :> NamingTemplate("FLSC", <<"Material", "For Shaft Diameter", "OD", "Width", "Finish">>, None, collar_abbrevs))

bearing_templates ==
    ("flanged_sleeve_bearing" :> NamingTemplate("FSB", <<"Material", "For Shaft Diameter", "OD", "Length">>, None, bearing_abbrevs)) @@
    ("sleeve_bearing" :> NamingTemplate("SB", <<"Material", "For Shaft Diameter", "OD", "Length">>, None, bearing_abbrevs)) @@
    ("flanged_bearing" :> NamingTemplate("FB", <<"Material", "For Shaft Diameter", "OD", "Length">>, None, bearing_abbrevs)) @@
    ("ball_bearing" :> NamingTemplate("BB", <<"Material", "Bore", "OD">>, None, bearing_abbrevs)) @@
    ("linear_bearing" :> NamingTemplate("LB", <<"Material", "For Shaft Diameter", "Length">>, None, bearing_abbrevs)) @@
    ("needle_bearing" :> NamingTemplate("NB", <<"Material", "Bore", "OD", "Length">>, None, bearing_abbrevs)) @@
    ("roller_bearing" :> NamingTemplate("RB", <<"Material", "Bore", "OD", "Length">>, None, bearing_abbrevs)) @@
    ("flange_mounted_ball_bearing" :> NamingTemplate("MFBB", <<"Housing Material", "For Shaft Diameter", "Mounting Hole Center -to-Center", "Overall Height">>, None, bearing_abbrevs)) @@
    ("low_profile_flange_mounted_ball_bearing" :> NamingTemplate("LPMFBB", <<"Housing Material", "For Shaft Diameter", "Mounting Hole Center -to-Center", "Overall Height">>, None, bearing_abbrevs)) @@
    ("pillow_block_mounted_ball_bearing" :> NamingTemplate("PBMBB", <<"Housing Material", "For Shaft Diameter", "Mounting Hole Center -to-Center", "Overall Height">>, None, bearing_abbrevs)) @@
    ("generic_mounted_bearing" :> NamingTemplate("MBB", <<"Housing Material", "For Shaft Diameter", "Overall Height">>, None, bearing_abbrevs)) @@
    ("generic_bearing" :> NamingTemplate("BRG", <<"Material", "Type">>, None, bearing_abbrevs))

\* NameGenerator::new: the registry after initialize_templates.
category_templates ==
    screw_templates @@ washer_templates @@ nut_templates @@ standoff_templates @@
    spacer_templates @@ pin_templates @@ bearing_templates

(***************************************************************************)
(* f64 values as the converters use them.  A finite value is held exactly: *)
(* a sign, the whole part as decimal digit text (so that values beyond the *)
(* i32 range stay representable) and the fractional part num/den in lowest *)
(* terms.  For the operands used below the quotients and sums differ from  *)
(* the f64 results by less than the distance to the nearest 5-place        *)
(* rounding boundary, except for ties.  A tie needs a denominator that is  *)
(* a multiple of 64; among the denominators used that is 64 itself, whose  *)
(* quotients are exact in f64 as well.                                     *)
(***************************************************************************)
NaN == [kind |-> "nan"]

Infinity(neg) == [kind |-> "inf", neg |-> neg]

Finite(neg, whole, num, den) ==
    [kind |-> "finite", neg |-> neg, whole |-> whole, num |-> num, den |-> den]

is_digits(text) == \E s \in {text} : \A i \in 1..Len(s) : is_ascii_digit(char_at(s, i))

digit_value(c) == CHOOSE v \in 0..9 : char_at(AsciiDigits, v + 1) = c

RECURSIVE to_nat(_)
to_nat(text) ==
    the({IF s = "" THEN 0 ELSE 10 * to_nat(SubSeq(s, 1, Len(s) - 1)) + digit_value(char_at(s, Len(s))) :
         s \in {text}})

RECURSIVE to_string(_)
to_string(number) ==
    the({IF n < 10 THEN char_at(AsciiDigits, n + 1)
         ELSE to_string(n \div 10) \o char_at(AsciiDigits, (n % 10) + 1) : n \in {number}})

RECURSIVE gcd(_, _)
gcd(p, q) == the({IF b = 0 THEN a ELSE gcd(b, a % b) : a \in {p}, b \in {q}})

RECURSIVE pow10(_)
pow10(k) == IF k = 0 THEN 1 ELSE 10 * pow10(k - 1)

RECURSIVE zeros(_)
zeros(k) == IF k <= 0 THEN "" ELSE "0" \o zeros(k - 1)

RECURSIVE strip_leading_zeros(_)
strip_leading_zeros(text) ==
    the({IF s = "" THEN "0"
         ELSE IF char_at(s, 1) = "0" /\ Len(s) > 1 THEN strip_leading_zeros(Tail(s))
         ELSE s : s \in {text}})

\* The digit text of n + 1.
RECURSIVE succ_digits(_)
succ_digits(text) ==
    the({IF s = "" THEN "1"
         ELSE IF char_at(s, Len(s)) = "9" THEN succ_digits(SubSeq(s, 1, Len(s) - 1)) \o "0"
         ELSE SubSeq(s, 1, Len(s) - 1) \o char_at(AsciiDigits, digit_value(char_at(s, Len(s))) + 2) :
         s \in {text}})

from_rational(neg, numerator, denominator) ==
    the({Finite(neg, to_string(p \div q), (p % q) \div g, q \div g) :
         p \in {numerator}, q \in {denominator}, g \in {gcd(numerator % denominator, denominator)}})

\* The value of the decimal numeral ipart.fpart * 10^exponent.
from_decimal(neg, integer_part, fraction_part, exponent) ==
    LET digits == integer_part \o fraction_part
        point == Len(integer_part) + exponent
        whole == IF point <= 0 THEN ""
                 ELSE IF point >= Len(digits) THEN digits \o zeros(point - Len(digits))
                 ELSE SubSeq(digits, 1, point)
        frac == IF point <= 0 THEN zeros(0 - point) \o digits
                ELSE IF point >= Len(digits) THEN ""
                ELSE SubSeq(digits, point + 1, Len(digits))
    IN  the({the({Finite(neg, strip_leading_zeros(whole), to_nat(sig) \div g, pow10(Len(sig)) \div g) :
                  g \in {gcd(to_nat(sig), pow10(Len(sig)))}}) :
             sig \in {trim_end_matches(frac, "0")}})

\* str::parse::<f64>().ok(): an optional sign, then inf, infinity or nan in
\* any case, or decimal digits with an optional point and exponent.
parse_f64(text) ==
    the({
    LET neg == starts_with(s, "-")
        body == IF starts_with(s, "-") \/ starts_with(s, "+") THEN Tail(s) ELSE s
        epos == position(body, {"e", "E"})
        mantissa == IF epos = 0 THEN body ELSE SubSeq(body, 1, epos - 1)
        exp == IF epos = 0 THEN "" ELSE SubSeq(body, epos + 1, Len(body))
        exp_digits == IF starts_with(exp, "-") \/ starts_with(exp, "+") THEN Tail(exp) ELSE exp
        ppos == position(mantissa, {"."})
        ipart == IF ppos = 0 THEN mantissa ELSE SubSeq(mantissa, 1, ppos - 1)
        fpart == IF ppos = 0 THEN "" ELSE SubSeq(mantissa, ppos + 1, Len(mantissa))
    IN  IF to_lowercase(body) \in {"inf", "infinity"} THEN Some(Infinity(neg))
        ELSE IF to_lowercase(body) = "nan" THEN Some(NaN)
        ELSE IF /\ is_digits(ipart) /\ is_digits(fpart) /\ ipart \o fpart # ""
                /\ (epos = 0 \/ (exp_digits # "" /\ is_digits(exp_digits)))
        THEN Some(from_decimal(neg, ipart, fpart,
                               IF starts_with(exp, "-") THEN 0 - to_nat(exp_digits) ELSE to_nat(exp_digits)))
        ELSE None : s \in {text}})

is_zero(x) == x.kind = "finite" /\ x.whole = "0" /\ x.num = 0

\* p/q of a finite value: p = whole * den + num, q = den.
numer(x) == to_nat(x.whole) * x.den + x.num

\* f64 division.
div_f64(x, y) ==
    IF x.kind = "nan" \/ y.kind = "nan" THEN NaN
    ELSE IF is_zero(y) THEN (IF is_zero(x) THEN NaN ELSE Infinity(x.neg # y.neg))
    ELSE IF x.kind = "inf" THEN (IF y.kind = "inf" THEN NaN ELSE Infinity(x.neg # y.neg))
    ELSE IF y.kind = "inf" THEN Finite(x.neg # y.neg, "0", 0, 1)
    ELSE from_rational(x.neg # y.neg, numer(x) * y.den, x.den * numer(y))

\* f64 addition of two values that carry no minus sign: the texts the code
\* adds are pieces of a split on '-'.
add_f64(x, y) ==
    IF x.kind = "nan" \/ y.kind = "nan" THEN NaN
    ELSE IF x.kind = "inf" \/ y.kind = "inf" THEN Infinity(FALSE)
    ELSE from_rational(FALSE, numer(x) * y.den + numer(y) * x.den, x.den * y.den)

\* decimal.fract() == 0.0
is_integral(x) == x.kind = "finite" /\ x.num = 0

I32Max == "2147483647"

I32MinMagnitude == "2147483648"

\* a <= b for digit texts without leading zeros
digits_leq(x, y) ==
    \E a \in {x}, b \in {y} :
        \/ Len(a) < Len(b)
        \/ /\ Len(a) = Len(b)
           /\ \/ a = b
              \/ \E i \in 1..Len(a) : /\ SubSeq(a, 1, i - 1) = SubSeq(b, 1, i - 1)
                                      /\ digit_value(char_at(a, i)) < digit_value(char_at(b, i))

\* format!("{}", decimal as i32) for an integral value: the cast saturates.
format_as_i32(x) ==
    IF x.whole = "0" THEN "0"
    ELSE IF x.neg THEN "-" \o (IF digits_leq(x.whole, I32MinMagnitude) THEN x.whole ELSE I32MinMagnitude)
    ELSE IF digits_leq(x.whole, I32Max) THEN x.whole ELSE I32Max

\* format!("{:.5}", decimal): five places, the nearest, a tie to the even digit.
format_5(x) ==
    IF x.kind = "nan" THEN "NaN"
    ELSE IF x.kind = "inf" THEN (IF x.neg THEN "-inf" ELSE "inf")
    ELSE LET scaled == x.num * 100000
             q == scaled \div x.den
             r == scaled % x.den
             up == 2 * r > x.den \/ (2 * r = x.den /\ q % 2 = 1)
             places == IF up THEN q + 1 ELSE q
             whole == IF places = 100000 THEN succ_digits(x.whole) ELSE x.whole
             text == to_string(places % 100000)
         IN  (IF x.neg THEN "-" ELSE "") \o whole \o "." \o zeros(5 - Len(text)) \o text

(***************************************************************************)
(* Dimension and format conversion (naming/converters.rs).                 *)
(***************************************************************************)
\* parse_simple_fraction without its test of the denominator.
parse_simple_fraction_unguarded(fraction) ==
    the({IF Len(parts) = 2
         THEN the({IF numerator = None \/ denominator = None THEN None
                   ELSE Some(div_f64(numerator[1], denominator[1])) :
                   numerator \in {parse_f64(parts[1])}, denominator \in {parse_f64(parts[2])}})
         ELSE None : parts \in {split(fraction, "/")}})

parse_simple_fraction(fraction) ==
    the({IF Len(parts) = 2
         THEN the({IF numerator = None \/ denominator = None THEN None
                   ELSE IF ~is_zero(denominator[1]) THEN Some(div_f64(numerator[1], denominator[1]))
                   ELSE None :
                   numerator \in {parse_f64(parts[1])}, denominator \in {parse_f64(parts[2])}})
         ELSE None : parts \in {split(fraction, "/")}})

parse_fraction_to_decimal(fraction_str) ==
    IF contains(fraction_str, "-") /\ contains(fraction_str, "/")
    THEN the({IF Len(parts) = 2
              THEN the({IF whole = None \/ fraction_decimal = None THEN None
                        ELSE Some(add_f64(whole[1], fraction_decimal[1])) :
                        whole \in {parse_f64(parts[1])}, fraction_decimal \in {parse_simple_fraction(parts[2])}})
              ELSE None : parts \in {split(fraction_str, "-")}})
    ELSE IF contains(fraction_str, "/") THEN parse_simple_fraction(fraction_str)
    ELSE parse_f64(fraction_str)

convert_length_to_decimal(value) ==
    IF contains(value, "\"")
    THEN the({the({IF decimal # None
                   THEN IF is_integral(decimal[1]) THEN format_as_i32(decimal[1])
                        ELSE trim_end_matches(trim_end_matches(format_5(decimal[1]), "0"), ".")
                   ELSE clean_value :
                   decimal \in {parse_fraction_to_decimal(clean_value)}}) :
              clean_value \in {replace(replace(value, "\"", ""), " ", "-")}})
    ELSE IF contains(value, "mm") THEN trim(replace(value, "mm", ""))
    ELSE value

\* The capture of the leftmost match of the regular expression
\*   M\d+\s*x?\s*(\d+\.?\d*)\s*mm
\* in a text.  Repetitions are greedy; the leading \d+ gives digits back
\* to the group when nothing else can match (M10mm captures 0).
RECURSIVE digits_run(_, _)
digits_run(s, i) == IF i <= Len(s) /\ is_ascii_digit(char_at(s, i)) THEN 1 + digits_run(s, i + 1) ELSE 0

RECURSIVE spaces_run(_, _)
spaces_run(s, i) == IF i <= Len(s) /\ is_whitespace(char_at(s, i)) THEN 1 + spaces_run(s, i + 1) ELSE 0

is_at(s, i, pat) == i + Len(pat) - 1 <= Len(s) /\ SubSeq(s, i, i + Len(pat) - 1) = pat

\* The match that starts with M at position i and gives k digits to M\d+.
pitch_match_at(s, i, k) ==
    LET p1 == i + 1 + k
        p2 == p1 + spaces_run(s, p1)
        p3 == IF is_at(s, p2, "x") THEN p2 + 1 ELSE p2
        p4 == p3 + spaces_run(s, p3)
        p5 == p4 + digits_run(s, p4)
        p6 == IF is_at(s, p5, ".") THEN p5 + 1 ELSE p5
        p7 == p6 + digits_run(s, p6)
        p8 == p7 + spaces_run(s, p7)
    IN  IF is_at(s, i, "M") /\ k >= 1 /\ k <= digits_run(s, i + 1) /\ p5 > p4 /\ is_at(s, p8, "mm")
        THEN Some(SubSeq(s, p4, p7 - 1))
        ELSE None

pitch_captures(detail) ==
    the({the({IF starts = {} THEN None
              ELSE the({the({pitch_match_at(s, i, k) :
                             k \in {CHOOSE j \in 1..Len(s) :
                                       /\ pitch_match_at(s, i, j) # None
                                       /\ \A m \in 1..Len(s) : pitch_match_at(s, i, m) # None => m <= j}}) :
                        i \in {CHOOSE j \in starts : \A m \in starts : j <= m}}) :
              starts \in {{i \in 1..Len(s) : \E k \in 1..Len(s) : pitch_match_at(s, i, k) # None}}}) :
         s \in {detail}})

extract_thread_with_pitch(product, thread_size) ==
    the({
    LET inch == IF tpi_spec # None /\ first(tpi_spec[1].values) # None
                THEN replace(thread_size, "No. ", "") \o "x" \o trim(first(tpi_spec[1].values)[1])
                ELSE thread_with_x
    IN  IF starts_with(thread_with_x, "M") /\ ~contains(thread_with_x, "x")
        THEN IF captures # None THEN thread_with_x \o "x" \o captures[1]
             ELSE IF pitch_spec # None /\ first(pitch_spec[1].values) # None
             THEN thread_with_x \o "x" \o trim(replace(first(pitch_spec[1].values)[1], "mm", ""))
             ELSE inch
        ELSE inch :
    thread_with_x \in {replace(thread_size, "-", "x")},
    captures \in {pitch_captures(product.detail_description)},
    pitch_spec \in {find_spec(product, "Thread Pitch")},
    tpi_spec \in {find(product.specifications,
                       {i \in 1..Len(product.specifications) :
                          \/ contains(product.specifications[i].attribute, "Threads per Inch")
                          \/ contains(product.specifications[i].attribute, "threads per inch")})}})

(***************************************************************************)
(* Material and specification abbreviations (naming/abbreviations.rs).     *)
(***************************************************************************)
finish_prefixes ==
    <<"Black-Oxide ", "Black Oxide ", "Zinc Plated ", "Zinc-Plated ",
      "Zinc Yellow-Chromate Plated ", "Zinc Yellow Chromate Plated ",
      "Galvanized ", "Cadmium Plated ", "Cadmium-Plated ",
      "Nickel Plated ", "Nickel-Plated ", "Chrome Plated ", "Chrome-Plated ",
      "Passivated ", "Plain ", "Unfinished ">>

\* A parse that reports the finish Plain for every material text.
parse_material_and_finish_plain(material_value) == <<material_value, Some("Plain")>>

\* The pair (material, finish).
parse_material_and_finish(material_value) ==
    the({IF prefix # None
         THEN <<unwrap_or(strip_prefix(material_value, prefix[1]), material_value), Some(trim(prefix[1]))>>
         ELSE <<material_value, None>> :
         prefix \in {find(finish_prefixes,
                          {i \in 1..Len(finish_prefixes) : starts_with(material_value, finish_prefixes[i])})}})

\* The material as given, whatever the grade.
get_steel_grade_material_ungraded(product, original_material) == original_material

get_steel_grade_material(product, original_material) ==
    the({
    LET grade_value == IF grade_spec # None THEN first(grade_spec[1].values) ELSE None
    IN  IF grade_value = None THEN original_material
        ELSE IF contains(grade_value[1], "Grade 1") THEN "Grade 1 Steel"
        ELSE IF contains(grade_value[1], "Grade 2") THEN "Grade 2 Steel"
        ELSE IF contains(grade_value[1], "Grade 5") THEN "Grade 5 Steel"
        ELSE IF contains(grade_value[1], "Grade 8") THEN "Grade 8 Steel"
        ELSE IF contains(grade_value[1], "8.8") THEN "8.8 Steel"
        ELSE IF contains(grade_value[1], "10.9") THEN "10.9 Steel"
        ELSE IF contains(grade_value[1], "12.9") THEN "12.9 Steel"
        ELSE original_material :
    grade_spec \in {find_spec(product, "Fastener Strength Grade/Class")}})

\* The abbreviation without the branch for thread designations.
abbreviate_value_without_threads(value) ==
    IF strip_prefix(value, "No. ") # None THEN strip_prefix(value, "No. ")[1]
    ELSE the({IF Len(clean_value) <= 3 THEN to_uppercase(clean_value)
              ELSE to_uppercase(take(clean_value, 4)) :
              clean_value \in {replace(replace(value, "\"", ""), " ", "")}})

abbreviate_value(value) ==
    IF contains(value, "x") /\ (contains(value, "/") \/ starts_with(value, "M")
                               \/ (value # "" /\ is_ascii_digit(char_at(value, 1))))
    THEN replace(value, "\"", "")
    ELSE IF strip_prefix(value, "No. ") # None THEN strip_prefix(value, "No. ")[1]
    ELSE the({IF Len(clean_value) <= 3 THEN to_uppercase(clean_value)
              ELSE to_uppercase(take(clean_value, 4)) :
              clean_value \in {replace(replace(value, "\"", ""), " ", "")}})

(***************************************************************************)
(* The name generator (naming/generator.rs).                               *)
(***************************************************************************)
is_diameter_field(spec_lower) ==
    \/ spec_lower = "diameter"
    \/ ends_with(spec_lower, " diameter")
    \/ starts_with(spec_lower, "diameter ")
    \/ spec_lower = "bore"
    \/ ends_with(spec_lower, " bore")

is_length_field(spec_lower) ==
    \/ spec_lower = "length"
    \/ ends_with(spec_lower, " length")
    \/ starts_with(spec_lower, "length ")
    \/ (starts_with(spec_lower, "overall ") /\ ends_with(spec_lower, " length"))

is_dimension_field(spec_name) ==
    \E spec_lower \in {to_lowercase(spec_name)} :
        \/ is_diameter_field(spec_lower)
        \/ is_length_field(spec_lower)
        \/ spec_lower = "width" \/ ends_with(spec_lower, " width")
        \/ spec_lower = "height" \/ ends_with(spec_lower, " height")
        \/ spec_lower = "od" \/ ends_with(spec_lower, " od")
        \/ spec_lower = "id" \/ ends_with(spec_lower, " id")
        \/ spec_lower = "for screw size"
        \/ contains(spec_lower, "mounting hole center")

is_washer_template(template_category) == contains(template_category, "washer")

is_thread_size_field(spec_name) ==
    \E spec_lower \in {to_lowercase(spec_name)} :
        \/ spec_lower = "thread size"
        \/ spec_lower = "thread (a) size"
        \/ spec_lower = "thread (b) size"
        \/ starts_with(spec_lower, "thread size")
        \/ (starts_with(spec_lower, "thread (") /\ contains(spec_lower, ") size"))

is_material_field(spec_name) ==
    \E spec_lower \in {to_lowercase(spec_name)} :
        \/ spec_lower = "material"
        \/ spec_lower = "housing material"
        \/ ends_with(spec_lower, " material")

\* if text.is_empty() { None } else { Some(text) }
non_empty(text) == IF text = "" THEN None ELSE Some(text)

\* The lookup with attribute names compared exactly.
find_specification_with_aliases_exact(product, spec_name, template) ==
    LET exact(field) == find(product.specifications, named_exactly(product.specifications, field))
        aliases == template.spec_aliases
    IN  the({the({IF exact(spec_name) # None THEN Some(<<exact(spec_name)[1], spec_name>>)
                  ELSE IF alias # None THEN Some(<<exact(alias[1])[1], alias[1]>>)
                  ELSE None :
                  alias \in {find(alias_list, {i \in 1..Len(alias_list) : exact(alias_list[i]) # None})}}) :
             alias_list \in {IF aliases # None THEN unwrap_or(get(aliases[1], spec_name), <<>>) ELSE <<>>}})

\* The pair (specification, actual name) of the first name that some
\* specification carries: the field's own name, then its aliases in order.
find_specification_with_aliases(product, spec_name, template) ==
    LET aliases == template.spec_aliases
    IN  the({the({IF direct # None THEN Some(<<direct[1], spec_name>>)
                  ELSE IF alias # None THEN Some(<<find_spec(product, alias[1])[1], alias[1]>>)
                  ELSE None :
                  direct \in {find_spec(product, spec_name)},
                  alias \in {find(alias_list,
                                  {i \in 1..Len(alias_list) : find_spec(product, alias_list[i]) # None})}}) :
             alias_list \in {IF aliases # None THEN unwrap_or(get(aliases[1], spec_name), <<>>) ELSE <<>>}})

\* template.spec_abbreviations.get(text).cloned().unwrap_or_else(|| abbreviate_value(text))
abbreviation_or_basic(template, text) ==
    the({unwrap_or(get(template.spec_abbreviations, value), abbreviate_value(value)) : value \in {text}})

\* template.spec_abbreviations.get(text).cloned().unwrap_or(text)
abbreviation_or_same(template, text) ==
    the({unwrap_or(get(template.spec_abbreviations, value), value) : value \in {text}})

\* The branches of process_legacy_specification.  Each yields the pair
\* (token to push or None, extracted_finish after the call).
process_material(product, template, value, extracted_finish) ==
    the({
    LET material == parsed[1]
        finish == parsed[2]
        filler_value == IF filler_spec # None THEN first(filler_spec[1].values) ELSE None
        final_material ==
            IF /\ ends_with(template.prefix, "B")
               /\ (\/ starts_with(template.prefix, "FSB")
                   \/ starts_with(template.prefix, "SB")
                   \/ starts_with(template.prefix, "BB"))
            THEN IF /\ filler_value # None
                    /\ filler_value[1] # ""
                    /\ filler_value[1] # "None"
                    /\ filler_value[1] # "Not Specified"
                 THEN filler_value[1] \o "-Filled " \o material
                 ELSE material
            ELSE IF eq_ignore_ascii_case(material, "Steel") \/ eq_ignore_ascii_case(material, "Alloy Steel")
            THEN get_steel_grade_material(product, material)
            ELSE material
    IN  <<non_empty(abbreviation_or_basic(template, final_material)), finish>> :
    parsed \in {parse_material_and_finish(value)},
    filler_spec \in {find_spec(product, "Filler Material")}})

\* The Finish branch without its test for PASS.
process_finish_keeping_pass(template, value, extracted_finish) ==
    LET finish_value == IF value # "" THEN value ELSE unwrap_or(extracted_finish, "")
    IN  the({<<IF finish_value # "" /\ finish_abbrev # "" THEN Some(finish_abbrev) ELSE None,
               extracted_finish>> :
             finish_abbrev \in {abbreviation_or_basic(template, finish_value)}})

\* The Finish branch using the field's own value only.
process_finish_direct_only(template, value, extracted_finish) ==
    the({<<IF value # "" /\ finish_abbrev # "" /\ finish_abbrev # "PASS"
           THEN Some(finish_abbrev)
           ELSE None,
           extracted_finish>> :
         finish_abbrev \in {abbreviation_or_basic(template, value)}})

process_finish(template, value, extracted_finish) ==
    LET finish_value == IF value # "" THEN value ELSE unwrap_or(extracted_finish, "")
    IN  the({<<IF finish_value # "" /\ finish_abbrev # "" /\ finish_abbrev # "PASS"
               THEN Some(finish_abbrev)
               ELSE None,
               extracted_finish>> :
             finish_abbrev \in {abbreviation_or_basic(template, finish_value)}})

\* The For Screw Size branch converting to a decimal for every template.
process_for_screw_size_converting(template, template_category, value, extracted_finish) ==
    <<non_empty(abbreviation_or_same(template, convert_length_to_decimal(value))), extracted_finish>>

process_for_screw_size(template, template_category, value, extracted_finish) ==
    IF is_washer_template(template_category)
    THEN <<non_empty(abbreviation_or_basic(template, value)), extracted_finish>>
    ELSE <<non_empty(abbreviation_or_same(template, convert_length_to_decimal(value))), extracted_finish>>

process_legacy_specification(product, template, template_category, spec_name, value, extracted_finish) ==
    IF is_material_field(spec_name)
    THEN process_material(product, template, value, extracted_finish)
    ELSE IF eq_ignore_ascii_case(spec_name, "Finish")
    THEN process_finish(template, value, extracted_finish)
    ELSE IF eq_ignore_ascii_case(spec_name, "Length")
    THEN <<non_empty(abbreviation_or_same(template, convert_length_to_decimal(value))), extracted_finish>>
    ELSE IF eq_ignore_ascii_case(spec_name, "For Screw Size")
    THEN process_for_screw_size(template, template_category, value, extracted_finish)
    ELSE IF is_dimension_field(spec_name)
    THEN <<non_empty(abbreviation_or_same(template, convert_length_to_decimal(value))), extracted_finish>>
    ELSE IF is_thread_size_field(spec_name)
    THEN <<non_empty(abbreviation_or_basic(template, extract_thread_with_pitch(product, value))), extracted_finish>>
    ELSE <<non_empty(abbreviation_or_basic(template, value)), extracted_finish>>

\* One pass of the loop of apply_template over a key specification: the pair
\* (token pushed or None, extracted_finish afterwards).
apply_key_spec(product, template, template_category, spec_name, extracted_finish) ==
    the({IF found_spec # None
         THEN process_legacy_specification(product, template, template_category, found_spec[1][2],
                                           unwrap_or(first(found_spec[1][1].values), ""), extracted_finish)
         ELSE IF eq_ignore_ascii_case(spec_name, "Finish") /\ extracted_finish # None
         THEN process_legacy_specification(product, template, template_category, spec_name, "", extracted_finish)
         ELSE <<None, extracted_finish>> :
         found_spec \in {find_specification_with_aliases(product, spec_name, template)}})

\* name_parts and extracted_finish after the first n key specifications.
RECURSIVE apply_key_specs(_, _, _, _)
apply_key_specs(product, template, template_category, n) ==
    IF n = 0 THEN [name_parts |-> <<template.prefix>>, extracted_finish |-> None]
    ELSE the({the({[name_parts |-> IF processed_value[1] # None
                                   THEN Append(before.name_parts, processed_value[1][1])
                                   ELSE before.name_parts,
                    extracted_finish |-> processed_value[2]] :
                   processed_value \in {apply_key_spec(product, template, template_category,
                                                      template.key_specs[n], before.extracted_finish)}}) :
              before \in {apply_key_specs(product, template, template_category, n - 1)}})

apply_template(product, template, template_category) ==
    join(apply_key_specs(product, template, template_category, Len(template.key_specs)).name_parts, "-")

\* The fallback namer taking three words.
fallback_name_three_words(product) ==
    the({IF family_words # <<>>
         THEN replace(to_uppercase(join(family_words, "-")), ",", "") \o "-" \o product.part_number
         ELSE "UNKNOWN-" \o product.part_number :
         family_words \in {take(split_whitespace(product.family_description), 3)}})

\* The fallback namer leaving the commas in.
fallback_name_keeping_commas(product) ==
    the({IF family_words # <<>>
         THEN to_uppercase(join(family_words, "-")) \o "-" \o product.part_number
         ELSE "UNKNOWN-" \o product.part_number :
         family_words \in {take(split_whitespace(product.family_description), 4)}})

fallback_name(product) ==
    the({IF family_words # <<>>
         THEN replace(to_uppercase(join(family_words, "-")), ",", "") \o "-" \o product.part_number
         ELSE "UNKNOWN-" \o product.part_number :
         family_words \in {take(split_whitespace(product.family_description), 4)}})

\* generate_name giving the empty name where no template is registered.
generate_name_without_fallback(product) ==
    the({the({IF template # None THEN apply_template(product, template[1], template_key)
              ELSE "" :
              template \in {get(category_templates, template_key)}}) :
         template_key \in {determine_category(product)}})

\* NameGenerator::new: an instance whose only field is the registry that
\* initialize_templates fills.
NameGenerator_new == [category_templates |-> category_templates]

\* A call that leaves the instance with an empty registry.
borrowed_clearing(self) == [self EXCEPT !.category_templates = <<>>]

\* A call that drops the hex nut template from the instance's registry.
borrowed_evicting(self) ==
    [self EXCEPT !.category_templates = [k \in DOMAIN @ \ {"hex_nut"} |-> @[k]]]

\* A method taking &self: the fields of the instance after the call are the
\* fields before it.
borrowed(self) == self

\* NameGenerator::generate_name on the instance self.
generate_name_on(self, product) ==
    the({the({IF template # None THEN apply_template(product, template[1], template_key)
              ELSE fallback_name(product) :
              template \in {get(self.category_templates, template_key)}}) :
         template_key \in {determine_category(product)}})

\* generate_name on an instance as new() builds it.
generate_name(product) == generate_name_on(NameGenerator_new, product)

(***************************************************************************)
(* The part analyzer (naming/analyzer.rs).                                 *)
(***************************************************************************)
\* NameGenerator::get_template: the registry entry of a category key.
get_template(template_key) == get(category_templates, template_key)

\* Vec::contains
vec_contains(seq, x) == \E i \in 1..Len(seq) : seq[i] = x

is_spec_mapped(spec_name, template) ==
    \/ vec_contains(template.key_specs, spec_name)
    \/ /\ template.spec_aliases # None
       /\ \E k \in DOMAIN template.spec_aliases[1] : vec_contains(template.spec_aliases[1][k], spec_name)

find_spec_in_product(spec_name, product, template) ==
    LET aliases == template.spec_aliases
        specs == product.specifications
    IN  the({the({IF direct # None THEN first(direct[1].values)
                  ELSE IF alias # None
                  THEN first(find(specs, named_exactly(specs, alias[1]))[1].values)
                  ELSE None :
                  direct \in {find(specs, named_exactly(specs, spec_name))},
                  alias \in {find(alias_list,
                                  {i \in 1..Len(alias_list) : named_exactly(specs, alias_list[i]) # {}})}}) :
             alias_list \in {IF aliases # None THEN unwrap_or(get(aliases[1], spec_name), <<>>) ELSE <<>>}})

NameComponent(component, source, original_value) ==
    [component |-> component, source |-> source, original_value |-> original_value]

breakdown_name(generated, template_category, template) ==
    IF template # None
    THEN the({[i \in 1..Len(parts) |->
                 IF i = 1
                 THEN NameComponent(parts[1], "Template prefix (" \o template_category \o ")", None)
                 ELSE NameComponent(parts[i],
                                    IF i - 2 < Len(template[1].key_specs)
                                    THEN template[1].key_specs[i - 1]
                                    ELSE "Unknown spec " \o to_string(i - 1),
                                    None)] :
              parts \in {split(generated, "-")}})
    ELSE <<NameComponent(generated, "Unknown template", None)>>

\* The finish suggested by the first Material specification whose first
\* value names a known material; "?" when there is none.
suggest_finish_for_material(product) ==
    LET finish_of(material_lower) ==
            IF contains(material_lower, "stainless") THEN Some("PASS")
            ELSE IF contains(material_lower, "steel") /\ ~contains(material_lower, "stainless") THEN Some("ZP")
            ELSE IF contains(material_lower, "brass") THEN Some("UNFINISHED")
            ELSE IF contains(material_lower, "aluminum") THEN Some("CLEAR")
            ELSE None
        specs == product.specifications
    IN  the({IF decided # None THEN finish_of(to_lowercase(first(decided[1].values)[1]))
             ELSE Some("?") :
             decided \in {find(specs,
                               {i \in 1..Len(specs) :
                                  /\ specs[i].attribute = "Material"
                                  /\ first(specs[i].values) # None
                                  /\ finish_of(to_lowercase(first(specs[i].values)[1])) # None})}})

\* The suggestion with the guess put in front of the generated name.
generate_suggested_name_leading(product, template, missing_specs) ==
    IF /\ template # None
       /\ vec_contains(template[1].key_specs, "Finish")
       /\ vec_contains(missing_specs, "Finish")
    THEN the({IF suggested_finish # None
              THEN Some(suggested_finish[1] \o "-" \o current_name)
              ELSE None :
              current_name \in {generate_name(product)},
              suggested_finish \in {suggest_finish_for_material(product)}})
    ELSE None

generate_suggested_name(product, template, missing_specs) ==
    IF /\ template # None
       /\ vec_contains(template[1].key_specs, "Finish")
       /\ vec_contains(missing_specs, "Finish")
    THEN the({IF /\ suggested_finish # None
                 /\ ~ends_with(current_name, "-" \o suggested_finish[1])
              THEN Some(current_name \o "-" \o suggested_finish[1])
              ELSE None :
              current_name \in {generate_name(product)},
              suggested_finish \in {suggest_finish_for_material(product)}})
    ELSE None

\* The messages are given without their leading pictographs and arrows, which
\* are outside the characters a TLA+ string can hold.
generate_suggestions(product, template, unmapped_specs, missing_specs) ==
    IF template = None
    THEN <<"No template found for this part type. Consider adding a new template.">>
    ELSE (IF missing_specs = <<>> /\ unmapped_specs = <<>>
          THEN <<"Template uses all available key specifications">>
          ELSE <<>>)
         \o (IF missing_specs # <<>>
             THEN <<"Missing expected specifications: " \o join(missing_specs, ", "),
                    "   These specs might be named differently in the API",
                    "   Consider adding aliases to the template">>
             ELSE <<>>)
         \o (IF unmapped_specs # <<>>
             THEN <<"Unmapped specifications available: " \o join(unmapped_specs, ", "),
                    "   These could be added to the template for more detailed names">>
             ELSE <<>>)
         \o (IF contains(to_lowercase(product.family_description), "stainless") /\ missing_specs # <<>>
             THEN <<"Stainless steel parts often have finish embedded in material">>
             ELSE <<>>)

SpecAnalysis(spec, is_mapped) ==
    [name |-> spec.attribute,
     values |-> spec.values,
     used_in_name |-> is_mapped,
     processed_value |-> None,
     source |-> IF is_mapped THEN "direct" ELSE "unmapped"]

analyze_part(product, show_template, show_aliases) ==
    the({the({
    LET is_mapped(spec) == template # None /\ is_spec_mapped(spec.attribute, template[1])
        spec_analyses == [i \in 1..Len(product.specifications) |->
                            SpecAnalysis(product.specifications[i], is_mapped(product.specifications[i]))]
    IN  the({[part_number |-> product.part_number,
              category |-> product.product_category,
              detected_type |-> detected_type,
              family_description |-> product.family_description,
              product_description |-> product.detail_description,
              specifications |-> spec_analyses,
              missing_specs |-> missing_specs,
              unmapped_specs |-> [i \in 1..Len(unmapped) |-> unmapped[i].attribute],
              template_used |-> IF template # None THEN Some(detected_type) ELSE None,
              template_specs |-> IF template # None THEN template[1].key_specs ELSE <<>>,
              spec_aliases |-> IF template # None /\ template[1].spec_aliases # None
                               THEN template[1].spec_aliases[1] ELSE <<>>,
              generated_name |-> generated_name,
              suggested_name |-> generate_suggested_name(product, template, missing_specs),
              name_components |-> breakdown_name(generated_name, detected_type, template),
              suggestions |-> generate_suggestions(product, template,
                                                   [i \in 1..Len(unmapped) |-> unmapped[i].attribute],
                                                   missing_specs)] :
             unmapped \in {SelectSeq(product.specifications, LAMBDA spec : ~is_mapped(spec))},
             missing_specs \in {IF template # None
                                THEN SelectSeq(template[1].key_specs,
                                               LAMBDA k : find_spec_in_product(k, product, template[1]) = None)
                                ELSE <<>>},
             generated_name \in {generate_name(product)}}) :
    template \in {get_template(detected_type)}}) :
    detected_type \in {determine_category(product)}})

(***************************************************************************)
(* The records the engine is run on.  A family description is composed of  *)
(* an optional thread-forming phrase, an optional head phrase and a noun;  *)
(* a specification list is a selection, in order, of at most MaxSpecs      *)
(* entries of SpecPool.                                                    *)
(***************************************************************************)
MaxSpecs == 4

ThreadPhrases == {"", "Thread-Forming ", "Thread Forming "}

HeadPhrases ==
    {"", "Button Head ", "High Socket Head ", "Low Socket Head ", "Low-Profile Socket Head ",
     "Socket Head ", "Flat Head ", "Pan Head ", "Hex Head "}

Nouns ==
    {"Screw", "screws for Plastic", "Washer", "Hex Nut", "Standoff", "Unthreaded Spacer",
     "Ball Bearing", "Dowel Pin", "Shaft Collar", "Pulley", "Widget", "Cable Tie, Nylon Black Long Extra"}

OddFamilies == {"", ",", " ", ", Bracket", "Bracket Steel"}

Families == {t \o h \o n : t \in ThreadPhrases, h \in HeadPhrases, n \in Nouns} \cup OddFamilies

Categories ==
    {"", "Nuts", "Standoffs", "Bearings", "Pins", "Shaft Collars", "Pulleys", "Spacers", "Hardware"}

NamedFamilies == {"Button Head Socket Cap Screw", "Hex Nut", "Bracket Steel"}

SpecPool ==
    <<Specification("Material", <<"18-8 Stainless Steel">>),
      Specification("Material", <<"Passivated 18-8 Stainless Steel">>),
      Specification("MATERIAL", <<"Passivated">>),
      Specification("Thread Size", <<"1/4-20">>),
      Specification("Thread Size", <<"M8">>),
      Specification("Length", <<"3/4\"">>),
      Specification("Length", <<"1/0\"">>),
      Specification("Drive Style", <<"Hex">>),
      Specification("Drive Style", <<>>),
      Specification("Finish", <<"Passivated">>),
      Specification("finish", <<"Black-Oxide">>)>>

\* The entries of SpecPool at the positions of a set, in the pool's order.
RECURSIVE Selection(_, _)
Selection(positions, from) ==
    IF from > Len(SpecPool) THEN <<>>
    ELSE (IF from \in positions THEN <<SpecPool[from]>> ELSE <<>>) \o Selection(positions, from + 1)

SpecLists == {Selection(ps, 1) : ps \in {q \in SUBSET (1..Len(SpecPool)) : Cardinality(q) <= MaxSpecs}}

PartNumbers == {"91251A540"}

Records ==
    {ProductDetail(pn, "", f, "", <<>>) : pn \in PartNumbers, f \in Families}
    \cup {ProductDetail(pn, "", f, c, <<>>) : pn \in PartNumbers, f \in Nouns \cup OddFamilies, c \in Categories}
    \cup {ProductDetail("", "", f, "", <<>>) : f \in OddFamilies}
    \cup {ProductDetail(pn, "", f, "", specs) : pn \in PartNumbers, f \in NamedFamilies, specs \in SpecLists}

(***************************************************************************)
(* The naming engine as a state machine: a record is given, and            *)
(* determine_category and generate_name are each called on it once, in any *)
(* order.                                                                  *)
(***************************************************************************)
NoRecord == ProductDetail("", "", "", "", <<>>)

Init ==
    /\ record \in Records
    /\ category = Pending
    /\ name = Pending
    /\ analysis = Pending
    /\ input = ""
    /\ converted = Pending
    /\ given_key = ""
    /\ given_template = None
    /\ resolved = Pending
    /\ generators = <<>>
    /\ calls = <<>>
    /\ manager = None
    /\ outcome = Pending

DetermineCategory ==
    /\ category = Pending
    /\ category' = Returned(determine_category(record))
    /\ UNCHANGED <<record, name, analysis, input, converted, given_key, given_template, resolved,
                 generators, calls, manager, outcome>>

GenerateName ==
    /\ name = Pending
    /\ name' = Returned(generate_name(record))
    /\ UNCHANGED <<record, category, analysis, input, converted, given_key, given_template, resolved,
                 generators, calls, manager, outcome>>

AnalyzePart ==
    /\ analysis = Pending
    /\ \E show_template \in BOOLEAN, show_aliases \in BOOLEAN :
          analysis' = Returned(analyze_part(record, show_template, show_aliases))
    /\ UNCHANGED <<record, category, name, input, converted, given_key, given_template, resolved,
                 generators, calls, manager, outcome>>

Next == DetermineCategory \/ GenerateName \/ AnalyzePart

Spec == Init /\ [][Next]_vars

(***************************************************************************)
(* The length converter on its own: a text is given and                    *)
(* convert_length_to_decimal is called on it.  The texts are the fractions *)
(* n/d, alone and after a whole part in hyphen and in space form, whole    *)
(* numbers, texts that are no numbers, metric texts and bare texts.        *)
(***************************************************************************)
MaxNumerator == 7

MaxDenominator == 64

MaxWhole == 12

Fractions == {<<n, d>> : n \in 0..MaxNumerator, d \in 0..MaxDenominator}

FractionText(f) == to_string(f[1]) \o "/" \o to_string(f[2])

MixedWholes == {1, 2}

WholeTexts == {to_string(w) : w \in 0..MaxWhole} \cup {"2147483647", "2147483648"}

OddTexts ==
    {"", "invalid", "abc def", "1/2/3", "a/b", "1/", "/2", "1-2-3/4", "1-2", "1  1/2", "-3/8", "3/4-", "1/2x"}

MetricTexts == {"10mm", "10 mm", "2.5mm", "mm", "M8 x 1.25 mm"}

BareTexts == {"", "10", "3/4", "abc", "1 1/2", "No. 8"}

LengthTexts ==
    {FractionText(f) \o "\"" : f \in Fractions}
    \cup {to_string(w) \o sep \o FractionText(f) \o "\"" : w \in MixedWholes, sep \in {"-", " "}, f \in Fractions}
    \cup {w \o "\"" : w \in WholeTexts}
    \cup {t \o "\"" : t \in OddTexts}
    \cup MetricTexts
    \cup {t \o "\"" : t \in MetricTexts}
    \cup BareTexts

InitConv ==
    /\ input \in LengthTexts
    /\ converted = Pending
    /\ record = NoRecord
    /\ category = Pending
    /\ name = Pending
    /\ analysis = Pending
    /\ given_key = ""
    /\ given_template = None
    /\ resolved = Pending
    /\ generators = <<>>
    /\ calls = <<>>
    /\ manager = None
    /\ outcome = Pending

ConvertLength ==
    /\ converted = Pending
    /\ converted' = Returned(convert_length_to_decimal(input))
    /\ UNCHANGED <<record, category, name, analysis, input, given_key, given_template, resolved,
                 generators, calls, manager, outcome>>

NextConv == ConvertLength

SpecConv == InitConv /\ [][NextConv]_vars

(***************************************************************************)
(* determine_category on records written in different letter cases: each   *)
(* description is given in lowercase, in uppercase or with its first half  *)
(* in uppercase.                                                           *)
(***************************************************************************)
CaseFamilies ==
    {"button head screw", "mounted ball bearing", "flanged sleeve bearing", "low-profile mounted bearing",
     "bearing", "lock washer", "hex nut", "wire rope pulley"}

CaseCategories == {"", "bearings", "mounted bearings"}

CaseDetails == {"", "low profile"}

CaseTypes ==
    {<<>>, <<"Mounted Bearing Type", "two-bolt flange">>, <<"Mounted Bearing Type", "pillow block">>,
     <<"Plain Bearing Type", "flanged">>}

HalfUpper(text) ==
    to_uppercase(SubSeq(text, 1, Len(text) \div 2)) \o SubSeq(text, Len(text) \div 2 + 1, Len(text))

Written(text) == {text, to_uppercase(text), HalfUpper(text)}

CaseRecords ==
    {ProductDetail("91251A540", detail, family, product_category,
                   IF type = <<>> THEN <<>> ELSE <<Specification(type[1], <<value>>)>>) :
        family \in UNION {Written(f) : f \in CaseFamilies},
        product_category \in UNION {{c, to_uppercase(c)} : c \in CaseCategories},
        detail \in UNION {{d, HalfUpper(d)} : d \in CaseDetails},
        type \in CaseTypes,
        value \in {"two-bolt flange", "PILLOW Block", "flanged", "FLANGED"}}

InitCase ==
    /\ record \in CaseRecords
    /\ category = Pending
    /\ name = Pending
    /\ analysis = Pending
    /\ input = ""
    /\ converted = Pending
    /\ given_key = ""
    /\ given_template = None
    /\ resolved = Pending
    /\ generators = <<>>
    /\ calls = <<>>
    /\ manager = None
    /\ outcome = Pending

NextCase == DetermineCategory

SpecCase == InitCase /\ [][NextCase]_vars

(***************************************************************************)
(* determine_category asked for each of its keys.  ResultKeys are the keys *)
(* that appear as a result in the waterfalls; the records tried carry the  *)
(* words of a key, or a phrase a branch tests for, as family description,  *)
(* with and without a category and a bearing type.                         *)
(***************************************************************************)
ResultKeys ==
    {"thread_forming_button_head_screw", "thread_forming_high_socket_head_screw", 
     "thread_forming_low_socket_head_screw", "thread_forming_socket_head_screw", 
     "thread_forming_flat_head_screw", "thread_forming_pan_head_screw", "thread_forming_hex_head_screw", 
     "thread_forming_screw", "button_head_screw", "high_socket_head_screw", "low_socket_head_screw", 
     "ultra_low_socket_head_screw", "standard_socket_head_screw", "socket_head_screw", 
     "narrow_flat_head_screw", "standard_flat_head_screw", "undercut_flat_head_screw", 
     "wide_flat_head_screw", "flat_head_screw", "pan_head_screw", "hex_head_screw", 
     "standard_oval_head_screw", "undercut_oval_head_screw", "oval_head_screw", "square_head_screw", 
     "binding_head_screw", "carriage_head_screw", "cheese_head_screw", "fillister_head_screw", 
     "pancake_head_screw", "round_head_screw", "truss_head_screw", "rounded_head_screw", 
     "12_point_head_screw", "t_handle_screw", "t_slot_screw", "l_handle_screw", "domed_head_screw", 
     "headless_screw", "pentagon_head_screw", "four_arm_thumb_screw", "hex_thumb_screw", 
     "multilobe_thumb_screw", "rectangle_thumb_screw", "round_thumb_screw", "spade_thumb_screw", 
     "two_arm_thumb_screw", "wing_thumb_screw", "thumb_screw", "captive_panel_screw", "hook_screw", 
     "ring_screw", "eye_screw", "knob_screw", "threaded_screw", "tee_screw", "generic_screw", "unknown", 
     "cup_washer", "curved_washer", "dished_washer", "domed_washer", "double_clipped_washer", 
     "clipped_washer", "hillside_washer", "notched_washer", "perforated_washer", "pronged_washer", 
     "rectangular_washer", "sleeve_washer", "slotted_washer", "spherical_washer", "split_washer", 
     "square_washer", "tab_washer", "tapered_washer", "tooth_washer", "wave_washer", "wedge_washer", 
     "flat_washer", "cotter_pin_locknut", "distorted_thread_locknut", "flex_top_locknut", 
     "lock_washer_locknut", "nylon_insert_locknut", "serrations_locknut", "spring_stop_locknut", 
     "steel_insert_locknut", "generic_locknut", "acorn_nut", "barrel_nut", "cage_nut", "castle_nut", 
     "clinch_nut", "coupling_nut", "flange_nut", "hex_nut", "jam_nut", "knurled_thumb_nut", 
     "machine_screw_nut", "panel_nut", "push_on_nut", "rivet_nut", "round_nut", "screw_mount_nut", 
     "snap_in_nut", "socket_nut", "speed_nut", "square_nut", "tamper_resistant_nut", "threadless_nut", 
     "thumb_nut", "tube_end_nut", "twist_close_nut", "weld_nut", "with_pilot_hole_nut", "wing_nut", 
     "cap_nut", "generic_nut", "male_female_hex_standoff", "female_hex_standoff", "generic_standoff", 
     "aluminum_unthreaded_spacer", "stainless_steel_unthreaded_spacer", "nylon_unthreaded_spacer", 
     "unthreaded_spacer", "clevis_pin_with_retaining_ring_groove", "clevis_pin", "generic_pin", 
     "face_mount_shaft_collar", "flange_mount_shaft_collar", "generic_shaft_collar", 
     "low_profile_flange_mounted_ball_bearing", "flange_mounted_ball_bearing", 
     "pillow_block_mounted_ball_bearing", "generic_mounted_bearing", "flanged_sleeve_bearing", 
     "flanged_bearing", "sleeve_bearing", "ball_bearing", "linear_bearing", "needle_bearing", 
     "roller_bearing", "generic_bearing", "wire_rope_pulley", "rope_pulley", "v_belt_pulley", "sheave", 
     "pulley"}

KeyPhrases == {replace(key, "_", " ") : key \in ResultKeys}

BranchPhrases ==
    {"ultra low-profile socket head screw", "low-profile socket head screw", "12-point screw",
     "t-handle screw", "t-slot screw", "l-handle screw", "double-clipped washer", "flex-top locknut",
     "spring-stop locknut", "nylon-insert locknut", "lock washer lock nut", "machine screw nut",
     "screw mount", "screw mount nut", "snap-in nut", "push-on nut", "tamper-resistant nut",
     "twist-close nut", "male-female standoff", "female threaded standoff", "18-8 unthreaded spacer",
     "face-mount shaft collar", "flange-mount shaft collar", "v-belt pulley", "spacer", "widget"}

KeyTypes ==
    {<<>>,
     <<Specification("Mounted Bearing Type", <<"Two-Bolt Flange">>)>>,
     <<Specification("Mounted Bearing Type", <<"Pillow Block">>)>>,
     <<Specification("Plain Bearing Type", <<"Flanged">>)>>}

KeyRecords ==
    {ProductDetail("91251A540", "", family, product_category, type) :
        family \in KeyPhrases \cup BranchPhrases,
        product_category \in {"", "Nuts", "Spacers"},
        type \in KeyTypes}

\* The keys determine_category returns on the records tried.
ReturnedKeys == {determine_category(product) : product \in KeyRecords}

InitKeys ==
    /\ record \in KeyRecords
    /\ category = Pending
    /\ name = Pending
    /\ analysis = Pending
    /\ input = ""
    /\ converted = Pending
    /\ given_key = ""
    /\ given_template = None
    /\ resolved = Pending
    /\ generators = <<>>
    /\ calls = <<>>
    /\ manager = None
    /\ outcome = Pending

NextKeys == DetermineCategory

SpecKeys == InitKeys /\ [][NextKeys]_vars

(***************************************************************************)
(* fallback_name on its own: a record is given and named.  A family        *)
(* description is composed of a front, a gap and an end.                   *)
(***************************************************************************)
FallbackFronts == {"", "Hex", "socket,", ",", "a b c", " Steel,Zinc"}

FallbackGaps == {"", " ", "\t", "  "}

FallbackEnds == {"", "Nuts", "d e f", "straße\n", ", x "}

FallbackRecords ==
    {ProductDetail(pn, "", front \o gap \o end, "", <<>>) :
        pn \in {"91251A540", ""}, front \in FallbackFronts, gap \in FallbackGaps, end \in FallbackEnds}

InitFallback ==
    /\ record \in FallbackRecords
    /\ name = Pending
    /\ category = Pending
    /\ analysis = Pending
    /\ input = ""
    /\ converted = Pending
    /\ given_key = ""
    /\ given_template = None
    /\ resolved = Pending
    /\ generators = <<>>
    /\ calls = <<>>
    /\ manager = None
    /\ outcome = Pending

FallbackName ==
    /\ name = Pending
    /\ name' = Returned(fallback_name(record))
    /\ UNCHANGED <<record, category, analysis, input, converted, given_key, given_template,
                 resolved, generators, calls, manager, outcome>>

NextFallback == FallbackName

SpecFallback == InitFallback /\ [][NextFallback]_vars

(***************************************************************************)
(* abbreviate_value on its own: a value is given and abbreviated.  A value *)
(* is composed of a front, a middle and an end.                            *)
(***************************************************************************)
AbbrevFronts == {"", "M", "m", "1", "No. ", "He"}

AbbrevMiddles == {"", "8", "/4", "x", "10", " Lo\"ng", "ab", "ß"}

AbbrevEnds == {"", "x1.25", "-20", "\"", " St", "X"}

AbbrevTexts ==
    {front \o middle \o end : front \in AbbrevFronts, middle \in AbbrevMiddles, end \in AbbrevEnds}

InitAbbrev ==
    /\ input \in AbbrevTexts
    /\ converted = Pending
    /\ record = NoRecord
    /\ category = Pending
    /\ name = Pending
    /\ analysis = Pending
    /\ given_key = ""
    /\ given_template = None
    /\ resolved = Pending
    /\ generators = <<>>
    /\ calls = <<>>
    /\ manager = None
    /\ outcome = Pending

AbbreviateValue ==
    /\ converted = Pending
    /\ converted' = Returned(abbreviate_value(input))
    /\ UNCHANGED <<record, category, name, analysis, input, given_key, given_template, resolved,
                 generators, calls, manager, outcome>>

NextAbbrev == AbbreviateValue

SpecAbbrev == InitAbbrev /\ [][NextAbbrev]_vars

(***************************************************************************)
(* The resolution of one field of a template on its own: a template and a  *)
(* record are given, and one pass of the loop of apply_template is made    *)
(* for one of the template's key specifications.  The registry's only      *)
(* aliases repeat the field's own name, so besides a registered spacer     *)
(* template the templates include one whose aliases are other names.       *)
(***************************************************************************)
MaxAliasSpecs == 3

AliasedSpacer ==
    NamingTemplate("SP", <<"Material", "For Screw Size", "Finish">>,
                   Some("For Screw Size" :> <<"ID", "Inner Diameter">>), spacer_abbrevs)

AliasTemplates ==
    {<<"unthreaded_spacer", category_templates["unthreaded_spacer"]>>,
     <<"unthreaded_spacer", AliasedSpacer>>,
     <<"flat_washer", category_templates["flat_washer"]>>}

AliasPool ==
    {Specification("For Screw Size", <<"1/4\"">>),
     Specification("for screw size", <<"No. 8">>),
     Specification("ID", <<"0.257\"">>),
     Specification("Inner Diameter", <<"1/2\"">>),
     Specification("INNER DIAMETER", <<"3/8\"">>),
     Specification("Material", <<"Aluminum">>),
     Specification("Screw Size", <<"No. 6">>)}

\* The sequences of at most n distinct entries of a set.
RECURSIVE Arrangements(_, _)
Arrangements(pool, n) ==
    IF n = 0 THEN {<<>>}
    ELSE {<<>>} \cup {<<x>> \o rest : x \in pool, rest \in Arrangements(pool, n - 1)}

AliasRecords ==
    {ProductDetail("91251A540", "", "Unthreaded Spacer", "", specs) :
        specs \in {a \in Arrangements(AliasPool, MaxAliasSpecs) :
                      \A i, j \in 1..Len(a) : i # j => a[i] # a[j]}}

InitAlias ==
    /\ record \in AliasRecords
    /\ \E t \in AliasTemplates : given_key = t[1] /\ given_template = Some(t[2])
    /\ resolved = Pending
    /\ category = Pending
    /\ name = Pending
    /\ analysis = Pending
    /\ input = ""
    /\ converted = Pending
    /\ generators = <<>>
    /\ calls = <<>>
    /\ manager = None
    /\ outcome = Pending

ResolveField ==
    /\ resolved = Pending
    /\ \E n \in 1..Len(given_template[1].key_specs) :
          resolved' = Returned(
              [spec_name |-> given_template[1].key_specs[n],
               found_spec |-> find_specification_with_aliases(record, given_template[1].key_specs[n], given_template[1]),
               processed_value |-> apply_key_spec(record, given_template[1], given_key,
                                                  given_template[1].key_specs[n], None)[1]])
    /\ UNCHANGED <<record, category, name, analysis, input, converted, given_key, given_template,
                 generators, calls, manager, outcome>>

NextAlias == ResolveField

SpecAlias == InitAlias /\ [][NextAlias]_vars

(***************************************************************************)
(* The same calls on records whose specifications carry several values.    *)
(***************************************************************************)
MaxTrailingSpecs == 2

TrailingFamilies ==
    {"Button Head Socket Cap Screw", "Hex Nut", "Bearing", "Sleeve Bearing"}

TrailingPool ==
    <<Specification("Material", <<"18-8 Stainless Steel", "Brass">>),
      Specification("Material", <<"Steel", "Aluminum", "Brass">>),
      Specification("Thread Size", <<"1/4-20", "M8">>),
      Specification("Threads per Inch", <<"20", "28">>),
      Specification("Fastener Strength Grade/Class", <<"Grade 5", "Grade 8">>),
      Specification("Finish", <<"Zinc Plated", "Passivated">>),
      Specification("Length", <<"3/4\"", "1\"">>),
      Specification("Plain Bearing Type", <<"Flanged", "Sleeve">>),
      Specification("Filler Material", <<"Graphite", "None">>)>>

\* The entries of TrailingPool at the positions of a set, in the pool's order.
RECURSIVE TrailingSelection(_, _)
TrailingSelection(positions, from) ==
    IF from > Len(TrailingPool) THEN <<>>
    ELSE (IF from \in positions THEN <<TrailingPool[from]>> ELSE <<>>)
         \o TrailingSelection(positions, from + 1)

TrailingRecords ==
    {ProductDetail("91251A540", "", family, "", TrailingSelection(ps, 1)) :
        family \in TrailingFamilies,
        ps \in {q \in SUBSET (1..Len(TrailingPool)) : Cardinality(q) <= MaxTrailingSpecs}}

InitTrailing ==
    /\ record \in TrailingRecords
    /\ category = Pending
    /\ name = Pending
    /\ analysis = Pending
    /\ input = ""
    /\ converted = Pending
    /\ given_key = ""
    /\ given_template = None
    /\ resolved = Pending
    /\ generators = <<>>
    /\ calls = <<>>
    /\ manager = None
    /\ outcome = Pending

SpecTrailing == InitTrailing /\ [][Next]_vars

(***************************************************************************)
(* The same calls on records whose family description holds a phrase of    *)
(* the detector that contains, or is contained in, another of its phrases. *)
(***************************************************************************)
PhraseFamilies ==
    {"Ultra Low Socket Head Screw", "Ultra Low-Profile Socket Head Screw", "Low Socket Head Screw",
     "High Socket Head Screw", "Standard Socket Head Screw", "Socket Head Screw",
     "Narrow Flat Head Screw", "Undercut Flat Head Screw", "Flat Head Screw",
     "Standard Oval Head Screw", "Oval Head Screw", "Wing Thumb Screw", "Thumb Screw",
     "Button Head Screw", "Screw",
     "Double Clipped Washer", "Clipped Washer", "Washer",
     "Knurled Thumb Nut", "Thumb Nut", "Machine Screw Nut", "Nut"}

PhraseRecords == {ProductDetail("91251A540", "", family, "", <<>>) : family \in PhraseFamilies}

InitPhrases ==
    /\ record \in PhraseRecords
    /\ category = Pending
    /\ name = Pending
    /\ analysis = Pending
    /\ input = ""
    /\ converted = Pending
    /\ given_key = ""
    /\ given_template = None
    /\ resolved = Pending
    /\ generators = <<>>
    /\ calls = <<>>
    /\ manager = None
    /\ outcome = Pending

SpecPhrases == InitPhrases /\ [][Next]_vars

(***************************************************************************)
(* apply_template on its own: a template of the registry and a record are  *)
(* given, and the template is applied to the record.  The records carry a  *)
(* Material together with a Finish or a strength grade, a Thread Size with *)
(* or without its threads per inch, or a For Screw Size.                   *)
(***************************************************************************)
FinishMaterials ==
    {<<>>,
     <<Specification("Material", <<"18-8 Stainless Steel">>)>>,
     <<Specification("Material", <<"Zinc-Plated Steel">>)>>,
     <<Specification("material", <<"Black-Oxide Alloy Steel">>)>>,
     <<Specification("Material", <<"Passivated 18-8 Stainless Steel">>)>>}

FinishValues ==
    {<<>>,
     <<Specification("Finish", <<>>)>>,
     <<Specification("Finish", <<"">>)>>,
     <<Specification("Finish", <<" ">>)>>,
     <<Specification("Finish", <<"Passivated">>)>>,
     <<Specification("FINISH", <<"Black-Oxide">>)>>,
     <<Specification("Finish", <<"Zinc Yellow-Chromate Plated">>)>>}

FinishRecords ==
    {ProductDetail("91251A540", "", "", "", material \o finish) :
        material \in FinishMaterials, finish \in FinishValues}

GradeMaterials ==
    {"Steel", "alloy steel", "Zinc-Plated Steel", "Black-Oxide Alloy Steel", "Stainless Steel"}

GradeValues ==
    {<<"Grade 1">>, <<"Grade 2">>, <<"Grade 5">>, <<"Grade 8", "Grade 5">>, <<"Class 8.8">>,
     <<"10.9">>, <<"Class 12.9">>, <<"Medium Strength">>, <<>>}

GradeRecords ==
    {ProductDetail("91251A540", "", "", "", <<Specification("Material", <<material>>)>>) :
        material \in GradeMaterials}
    \cup {ProductDetail("91251A540", "", "", "",
                        <<Specification("Fastener Strength Grade/Class", grade),
                          Specification("Material", <<material>>)>>) :
            material \in GradeMaterials, grade \in GradeValues}

ThreadSizes == {"1/4-20", "1/4", "No. 4", "10-32", "M8", "M8-1.25"}

ThreadsPerInch ==
    {<<>>,
     <<Specification("Threads per Inch", <<"20">>)>>,
     <<Specification("Threads per Inch", <<" 32 ", "40">>)>>,
     <<Specification("Threads per Inch", <<>>)>>}

ThreadRecords ==
    {ProductDetail("91251A540", "", "", "", <<Specification("Thread Size", <<thread_size>>)>> \o tpi) :
        thread_size \in ThreadSizes, tpi \in ThreadsPerInch}

ScrewSizes == {"1/4\"", "No. 8", "1-1/2\"", "M3", "0.257\"", "\""}

ScrewSizeRecords ==
    {ProductDetail("91251A540", "", "", "", <<Specification(attribute, <<screw_size>>)>>) :
        attribute \in {"For Screw Size", "for screw size"}, screw_size \in ScrewSizes}

\* Records that fill every field of a washer template.
FullRecords ==
    {ProductDetail("91251A540", "", "", "",
                   <<Specification("Material", <<material>>), Specification("For Screw Size", <<screw_size>>)>>
                   \o finish) :
        material \in {"18-8 Stainless Steel", "Steel"},
        screw_size \in {"1/4\"", "1-1/2\""},
        finish \in {<<>>, <<Specification("Finish", <<"Zinc-Plated">>)>>}}

TemplateRecords == FinishRecords \cup GradeRecords \cup ThreadRecords \cup ScrewSizeRecords \cup FullRecords

InitTemplate ==
    /\ record \in TemplateRecords
    /\ \E k \in DOMAIN category_templates : given_key = k /\ given_template = Some(category_templates[k])
    /\ name = Pending
    /\ category = Pending
    /\ analysis = Pending
    /\ input = ""
    /\ converted = Pending
    /\ resolved = Pending
    /\ generators = <<>>
    /\ calls = <<>>
    /\ manager = None
    /\ outcome = Pending

ApplyTemplate ==
    /\ name = Pending
    /\ name' = Returned(apply_template(record, given_template[1], given_key))
    /\ UNCHANGED <<record, category, analysis, input, converted, given_key, given_template,
                 resolved, generators, calls, manager, outcome>>

NextTemplate == ApplyTemplate

SpecTemplate == InitTemplate /\ [][NextTemplate]_vars

(***************************************************************************)
(* Several NameGenerator instances and their callers.  An instance is      *)
(* constructed by new(); from then on any caller may call generate_name    *)
(* or analyze_part on it (a PartAnalyzer owns the generator it calls), or  *)
(* the free function determine_category, in any order.  A call is one      *)
(* step: the methods take &self, so no step of one call can be seen by     *)
(* another.  Every completed call is kept with the instance it was made    *)
(* on and the value it returned.                                           *)
(***************************************************************************)
Instances == {"first", "second"}

SharedRecords ==
    {ProductDetail("91251A540", "", family, "", specs) :
        family \in NamedFamilies,
        specs \in {<<>>,
                   <<Specification("Material", <<"18-8 Stainless Steel">>),
                     Specification("Thread Size", <<"1/4-20">>)>>}}

InitShared ==
    /\ record \in SharedRecords
    /\ generators = <<>>
    /\ calls = [generate_name |-> {}, determine_category |-> {}, analyze_part |-> {}]
    /\ category = Pending
    /\ name = Pending
    /\ analysis = Pending
    /\ input = ""
    /\ converted = Pending
    /\ given_key = ""
    /\ given_template = None
    /\ resolved = Pending
    /\ manager = None
    /\ outcome = Pending

New ==
    /\ \E i \in Instances \ DOMAIN generators :
          generators' = generators @@ (i :> NameGenerator_new)
    /\ UNCHANGED <<record, category, name, analysis, input, converted, given_key, given_template,
                 resolved, calls, manager, outcome>>

CallGenerateName ==
    /\ \E i \in DOMAIN generators :
          /\ calls' = [calls EXCEPT !.generate_name =
                          @ \cup {[instance |-> i, val |-> generate_name_on(generators[i], record)]}]
          /\ generators' = [generators EXCEPT ![i] = borrowed(@)]
    /\ UNCHANGED <<record, category, name, analysis, input, converted, given_key, given_template,
                 resolved, manager, outcome>>

CallDetermineCategory ==
    /\ calls' = [calls EXCEPT !.determine_category =
                    @ \cup {[instance |-> "", val |-> determine_category(record)]}]
    /\ UNCHANGED <<record, category, name, analysis, input, converted, given_key, given_template,
                 resolved, generators, manager, outcome>>

\* analyze_part reads the registry of its generator through get_template and
\* generate_name only.
CallAnalyzePart ==
    /\ \E i \in DOMAIN generators :
          /\ generators[i] = NameGenerator_new
          /\ calls' = [calls EXCEPT !.analyze_part =
                          @ \cup {[instance |-> i, val |-> analyze_part(record, FALSE, FALSE)]}]
          /\ generators' = [generators EXCEPT ![i] = borrowed(@)]
    /\ UNCHANGED <<record, category, name, analysis, input, converted, given_key, given_template,
                 resolved, manager, outcome>>

NextShared == New \/ CallGenerateName \/ CallDetermineCategory \/ CallAnalyzePart

SpecShared == InitShared /\ [][NextShared]_vars

(***************************************************************************)
(* The subscription manager (client/subscriptions.rs).  The manager holds  *)
(* the set of tracked part numbers and rewrites its file after every       *)
(* change.  Of the file the model keeps whether it has been rewritten, and *)
(* then the set of part lines under its header, the order of the lines     *)
(* aside.  File operations are taken to succeed.                           *)
(***************************************************************************)
\* part_number.trim().to_uppercase()
normalized_part(part_number) == to_uppercase(trim(part_number))

\* The part numbers on the lines of a file: blank lines and lines starting
\* with # are skipped.
load_from_file(lines) ==
    {normalized_part(trim(lines[i])) :
        i \in {j \in 1..Len(lines) : trim(lines[j]) # "" /\ ~starts_with(trim(lines[j]), "#")}}

\* The characters in the order of their bytes.
ByteOrder == "\t\n\f\r !\"#" \o "-./" \o AsciiDigits \o UpperAlphabet \o LowerAlphabet \o "ß"

byte_rank(c) == CHOOSE i \in 1..Len(ByteOrder) : char_at(ByteOrder, i) = c

\* Ord for str: the order of the first character that differs, a proper
\* prefix first.
str_lt(a, b) ==
    \E i \in 1..(Len(b)) :
        /\ i <= Len(a) + 1
        /\ SubSeq(a, 1, i - 1) = SubSeq(b, 1, i - 1)
        /\ (i = Len(a) + 1 \/ byte_rank(char_at(a, i)) < byte_rank(char_at(b, i)))

\* Vec::sort of the elements of a set of strings.
sort(set) ==
    [i \in 1..Cardinality(set) |-> CHOOSE x \in set : Cardinality({y \in set : str_lt(y, x)}) = i - 1]

\* BufRead::lines: the text between line feeds, without the carriage return
\* before a line feed; what follows the last line feed is a line unless empty.
read_lines(content) ==
    the({[i \in 1..(IF pieces[Len(pieces)] = "" THEN Len(pieces) - 1 ELSE Len(pieces)) |->
            IF ends_with(pieces[i], "\r") THEN SubSeq(pieces[i], 1, Len(pieces[i]) - 1) ELSE pieces[i]] :
         pieces \in {split(content, "\n")}})

\* The text save_to_file writes: the header, then the sorted parts, one writeln each.
file_text(parts) ==
    "# McMaster-Carr Subscribed Parts\n# Auto-managed by mmcli - do not edit manually\n\n"
    \o join([i \in 1..Cardinality(parts) |-> sort(parts)[i] \o "\n"], "")

\* The manager after its file is rewritten from its set.
save_to_file(self) == [self EXCEPT !.written = Some(file_text(self.parts))]

SubscriptionManager_new(lines) == [parts |-> load_from_file(lines), written |-> None]

\* add_part with the part number inserted as it is given.
add_part_as_given(self, part_number) ==
    IF part_number \notin self.parts
    THEN <<save_to_file([self EXCEPT !.parts = @ \cup {part_number}]), TRUE>>
    ELSE <<self, FALSE>>

\* add_part and remove_part give the pair (manager after the call, value
\* returned).
add_part(self, part_number) ==
    the({IF normalized \notin self.parts
         THEN <<save_to_file([self EXCEPT !.parts = @ \cup {normalized}]), TRUE>>
         ELSE <<self, FALSE>> :
         normalized \in {normalized_part(part_number)}})

remove_part(self, part_number) ==
    the({IF normalized \in self.parts
         THEN <<save_to_file([self EXCEPT !.parts = @ \ {normalized}]), TRUE>>
         ELSE <<self, FALSE>> :
         normalized \in {normalized_part(part_number)}})

\* import_from_file gives the pair (manager after the call, number of parts
\* newly inserted); the file is rewritten only if there are any.
import_from_file(self, import_lines) ==
    the({IF imported = {} THEN <<self, 0>>
         ELSE <<save_to_file([self EXCEPT !.parts = @ \cup imported]), Cardinality(imported)>> :
         imported \in {load_from_file(import_lines) \ self.parts}})

clear(self) == save_to_file([self EXCEPT !.parts = {}])

has_part(self, part_number) == normalized_part(part_number) \in self.parts

count(self) == Cardinality(self.parts)

(***************************************************************************)
(* The manager as a state machine: it is constructed on a file, and then   *)
(* add_part, remove_part, has_part and count are called in any order.  The *)
(* lines found in the file and the calls of add_part and remove_part made  *)
(* since are kept, at most MaxOps calls, with the value the last call      *)
(* returned and the set it was made on.                                    *)
(***************************************************************************)
MaxOps == 3

PartTexts == {"91831A030", "91831a030", " 91831A030 ", "92141A008", "92141a008\t"}

SubscriptionFiles ==
    {<<>>,
     <<"# McMaster-Carr Subscribed Parts", "", "92141a008", " 92141A008">>}

InitSubs ==
    /\ \E lines \in SubscriptionFiles :
          /\ manager = Some(SubscriptionManager_new(lines))
          /\ calls = [i \in 1..Len(lines) |-> [call |-> "load", part_number |-> lines[i]]]
    /\ outcome = Pending
    /\ record = NoRecord
    /\ category = Pending
    /\ name = Pending
    /\ analysis = Pending
    /\ input = ""
    /\ converted = Pending
    /\ given_key = ""
    /\ given_template = None
    /\ resolved = Pending
    /\ generators = <<>>

AddPart ==
    /\ Len(SelectSeq(calls, LAMBDA c : c.call # "load")) < MaxOps
    /\ \E part_number \in PartTexts :
          /\ manager' = Some(add_part(manager[1], part_number)[1])
          /\ outcome' = Returned([call |-> "add_part", part_number |-> part_number,
                                  before |-> manager[1].parts,
                                  result |-> add_part(manager[1], part_number)[2]])
          /\ calls' = Append(calls, [call |-> "add_part", part_number |-> part_number])
    /\ UNCHANGED <<record, category, name, analysis, input, converted, given_key, given_template,
                 resolved, generators>>

RemovePart ==
    /\ Len(SelectSeq(calls, LAMBDA c : c.call # "load")) < MaxOps
    /\ \E part_number \in PartTexts :
          /\ manager' = Some(remove_part(manager[1], part_number)[1])
          /\ outcome' = Returned([call |-> "remove_part", part_number |-> part_number,
                                  before |-> manager[1].parts,
                                  result |-> remove_part(manager[1], part_number)[2]])
          /\ calls' = Append(calls, [call |-> "remove_part", part_number |-> part_number])
    /\ UNCHANGED <<record, category, name, analysis, input, converted, given_key, given_template,
                 resolved, generators>>

HasPart ==
    /\ \E part_number \in PartTexts :
          outcome' = Returned([call |-> "has_part", part_number |-> part_number,
                               before |-> manager[1].parts,
                               result |-> has_part(manager[1], part_number)])
    /\ UNCHANGED <<record, category, name, analysis, input, converted, given_key, given_template,
                 resolved, generators, calls, manager>>

Count ==
    /\ outcome' = Returned([call |-> "count", part_number |-> "",
                            before |-> manager[1].parts,
                            result |-> count(manager[1])])
    /\ UNCHANGED <<record, category, name, analysis, input, converted, given_key, given_template,
                 resolved, generators, calls, manager>>

NextSubs == AddPart \/ RemovePart \/ HasPart \/ Count

SpecSubs == InitSubs /\ [][NextSubs]_vars

(***************************************************************************)
(* The manager and its file: a manager is constructed on a file, add_part, *)
(* remove_part, import_from_file and clear are called in any order, at     *)
(* most MaxFileOps calls, and at any time a second manager is constructed  *)
(* on the same file.  The text found in the file at the start is kept in   *)
(* input; the file holds it until the manager first writes.                *)
(***************************************************************************)
MaxFileOps == 2

FileTexts == {"91831a030", " 92141A008 ", "", "#10", "91831A030\n92141A008"}

FileContents == {"", "# McMaster-Carr Subscribed Parts\n\n92141a008\r\n 91831A030"}

ImportFiles == {<<>>, <<"# parts", "92141a008", "", "90128A211 ">>}

\* The text in the file of the manager.
FileOf(self) == IF self.written # None THEN self.written[1] ELSE input

InitFile ==
    /\ input \in FileContents
    /\ manager = Some(SubscriptionManager_new(read_lines(input)))
    /\ calls = <<>>
    /\ outcome = Pending
    /\ record = NoRecord
    /\ category = Pending
    /\ name = Pending
    /\ analysis = Pending
    /\ converted = Pending
    /\ given_key = ""
    /\ given_template = None
    /\ resolved = Pending
    /\ generators = <<>>

AddToFile ==
    /\ Len(calls) < MaxFileOps
    /\ \E part_number \in FileTexts :
          /\ manager' = Some(add_part(manager[1], part_number)[1])
          /\ outcome' = Returned([call |-> "add_part", part_number |-> part_number,
                                  before |-> manager[1].parts,
                                  result |-> add_part(manager[1], part_number)[2]])
          /\ calls' = Append(calls, [call |-> "add_part", part_number |-> part_number])
    /\ UNCHANGED <<record, category, name, analysis, input, converted, given_key, given_template,
                 resolved, generators>>

RemoveFromFile ==
    /\ Len(calls) < MaxFileOps
    /\ \E part_number \in FileTexts :
          /\ manager' = Some(remove_part(manager[1], part_number)[1])
          /\ outcome' = Returned([call |-> "remove_part", part_number |-> part_number,
                                  before |-> manager[1].parts,
                                  result |-> remove_part(manager[1], part_number)[2]])
          /\ calls' = Append(calls, [call |-> "remove_part", part_number |-> part_number])
    /\ UNCHANGED <<record, category, name, analysis, input, converted, given_key, given_template,
                 resolved, generators>>

ImportFromFile ==
    /\ Len(calls) < MaxFileOps
    /\ \E import_lines \in ImportFiles :
          /\ manager' = Some(import_from_file(manager[1], import_lines)[1])
          /\ outcome' = Returned([call |-> "import_from_file", part_number |-> "",
                                  before |-> manager[1].parts,
                                  result |-> import_from_file(manager[1], import_lines)[2]])
          /\ calls' = Append(calls, [call |-> "import_from_file", part_number |-> ""])
    /\ UNCHANGED <<record, category, name, analysis, input, converted, given_key, given_template,
                 resolved, generators>>

Clear ==
    /\ Len(calls) < MaxFileOps
    /\ manager' = Some(clear(manager[1]))
    /\ outcome' = Returned([call |-> "clear", part_number |-> "",
                            before |-> manager[1].parts, result |-> 0])
    /\ calls' = Append(calls, [call |-> "clear", part_number |-> ""])
    /\ UNCHANGED <<record, category, name, analysis, input, converted, given_key, given_template,
                 resolved, generators>>

\* A second manager is constructed on the file; the set it tracks is kept.
Reopen ==
    /\ outcome' = Returned([call |-> "new", part_number |-> "",
                            before |-> manager[1].parts,
                            result |-> SubscriptionManager_new(read_lines(FileOf(manager[1]))).parts])
    /\ UNCHANGED <<record, category, name, analysis, input, converted, given_key, given_template,
                 resolved, generators, calls, manager>>

NextFile == AddToFile \/ RemoveFromFile \/ ImportFromFile \/ Clear \/ Reopen

SpecFile == InitFile /\ [][NextFile]_vars

(***************************************************************************)
(* Properties of the naming engine.                                        *)
(***************************************************************************)
tokens(text) == split(text, "-")

BHSRecord ==
    ProductDetail("91251A540", "", "Button Head Socket Cap Screw", "",
                  <<Specification("Material", <<"18-8 Stainless Steel">>),
                    Specification("Thread Size", <<"1/4-20">>),
                    Specification("Length", <<"3/4\"">>),
                    Specification("Drive Style", <<"Hex">>)>>)

\* C1: on the button head socket cap screw 91251A540 with Material, Thread
\* Size, Length and Drive Style, determine_category returns button_head_screw
\* and generate_name returns BHS-SS188-1/4x20-0.75-HEX, with no finish token.
C1_ButtonHeadExample ==
    record = BHSRecord =>
        /\ category # Pending => category = Returned("button_head_screw")
        /\ name # Pending => name = Returned("BHS-SS188-1/4x20-0.75-HEX")

C1_Witness == record = BHSRecord /\ category # Pending /\ name # Pending

\* The template generate_name applies to a record, or None.
TemplateOf(product) == get(category_templates, determine_category(product))

\* The finish a record resolves to: the first value of its Finish
\* specification, else the finish at the front of its Material text.
ResolvedFinish(product) ==
    LET direct == find_spec(product, "Finish")
        material == find_spec(product, "Material")
        direct_value == IF direct # None THEN unwrap_or(first(direct[1].values), "") ELSE ""
        extracted == IF material # None
                     THEN parse_material_and_finish(unwrap_or(first(material[1].values), ""))[2]
                     ELSE None
    IN  IF direct_value # "" THEN direct_value ELSE unwrap_or(extracted, "")

FinishIsPass(product) ==
    /\ TemplateOf(product) # None
    /\ ResolvedFinish(product) # ""
    /\ abbreviation_or_basic(TemplateOf(product)[1], ResolvedFinish(product)) = "PASS"

WithoutFinish(template) ==
    [template EXCEPT !.key_specs = SelectSeq(@, LAMBDA k : ~eq_ignore_ascii_case(k, "Finish"))]

\* C2 as stated: when the resolved finish of a record abbreviates to PASS,
\* no token of the generated name is PASS.
C2_NoPassToken ==
    (name # Pending /\ FinishIsPass(record)) =>
        \A i \in 1..Len(tokens(name.val)) : tokens(name.val)[i] # "PASS"

\* C2 amended: when the resolved finish of a record abbreviates to PASS, the
\* Finish field adds no token: the name is the one the template gives without
\* its Finish field.  (Another field whose value abbreviates to PASS still
\* puts that token in the name.)
C2_FinishFieldSuppressed ==
    (name # Pending /\ FinishIsPass(record)) =>
        name.val = apply_template(record, WithoutFinish(TemplateOf(record)[1]), determine_category(record))

C2_Witness ==
    /\ name # Pending
    /\ FinishIsPass(record)
    /\ find_spec(record, "Finish") # None
    /\ Len(tokens(name.val)) > 1

\* C3: generate_name returns a non-empty text whose first '-'-delimited
\* token is non-empty.
C3_FirstTokenNonEmpty ==
    name # Pending => (name.val # "" /\ tokens(name.val)[1] # "")

\* The phrases determine_category looks for in the family description, and
\* those it looks for in the product category.
FamilyKeywords ==
    {"thread-forming", "thread forming", "screw", "washer", "nut", "spacer", "standoff",
     "bearing", "pin", "shaft collar", "pulley", "sheave"}

CategoryKeywords == {"nut", "standoff", "bearing", "pins", "shaft collars", "pulleys"}

NoKeyword(text, keywords) == \A k \in keywords : ~contains(to_lowercase(text), k)

\* The fallback form: the first four words of the family description joined
\* with '-', uppercased, commas removed, then '-' and the part number;
\* UNKNOWN stands for the words when there are none.
FallbackForm(product) ==
    LET words == SelectSeq(split(product.family_description, " "), LAMBDA w : w # "")
        leading == SubSeq(words, 1, IF Len(words) < 4 THEN Len(words) ELSE 4)
    IN  IF leading = <<>> THEN "UNKNOWN-" \o product.part_number
        ELSE replace(to_uppercase(join(leading, "-")), ",", "") \o "-" \o product.part_number

\* C4 as stated: a record whose family description contains none of the
\* detector's keywords gets the fallback form.
C4_FallbackWithoutFamilyKeyword ==
    (name # Pending /\ NoKeyword(record.family_description, FamilyKeywords)) =>
        name.val = FallbackForm(record)

\* C4 amended: a record whose family description and product category both
\* contain none of the detector's keywords gets the fallback form.  (The
\* product category alone selects the nut, standoff and bearing templates.)
C4_FallbackWithoutAnyKeyword ==
    (/\ name # Pending
     /\ NoKeyword(record.family_description, FamilyKeywords)
     /\ NoKeyword(record.product_category, CategoryKeywords)) =>
        name.val = FallbackForm(record)

C4_Witness ==
    /\ name # Pending
    /\ NoKeyword(record.family_description, FamilyKeywords)
    /\ NoKeyword(record.product_category, CategoryKeywords)
    /\ Len(split_whitespace(record.family_description)) > 4
    /\ record.product_category # ""

IsThreadFormingSocketHead(family) ==
    LET family_lower == to_lowercase(family)
    IN  /\ contains(family_lower, "thread-forming") \/ contains(family_lower, "thread forming")
        /\ contains(family_lower, "socket head")
        /\ contains(family_lower, "screw")
        /\ NoKeyword(family, {"button head", "high socket head", "low socket head", "low-profile socket head"})

\* C5: a thread-forming socket head screw is classified as
\* thread_forming_socket_head_screw, not as a plain or generic screw.
C5_ThreadFormingPrecedence ==
    (category # Pending /\ IsThreadFormingSocketHead(record.family_description)) =>
        category = Returned("thread_forming_socket_head_screw")

C5_Witness ==
    /\ category # Pending
    /\ IsThreadFormingSocketHead(record.family_description)
    /\ contains(record.family_description, "Thread Forming")

\* C6: every category key determine_category returns, other than unknown,
\* is a key of the template registry.
C6_RegistryCoverage ==
    category # Pending => (category.val = "unknown" \/ category.val \in DOMAIN category_templates)

(***************************************************************************)
(* Properties of the resolution of a field.                                *)
(***************************************************************************)
\* The names a field answers to: its own, then its aliases in their order.
FieldNames(template, spec_name) ==
    <<spec_name>> \o (IF template.spec_aliases # None /\ spec_name \in DOMAIN template.spec_aliases[1]
                      THEN template.spec_aliases[1][spec_name]
                      ELSE <<>>)

\* The positions of the specifications of a record whose attribute is a name, case ignored.
Carriers(product, field) ==
    {i \in 1..Len(product.specifications) :
        to_lowercase(product.specifications[i].attribute) = to_lowercase(field)}

Least(S) == CHOOSE x \in S : \A y \in S : x <= y

\* C7: a field resolves exactly when a specification carries, case ignored,
\* its name or one of its aliases; the first such name, taking the field's
\* own name first and the aliases in their order, decides, with the first
\* specification that carries it; an unresolved field other than Finish
\* pushes no token.
C7_AliasResolution ==
    resolved # Pending =>
        LET r == resolved.val
            names == FieldNames(given_template[1], r.spec_name)
            hits == {i \in 1..Len(names) : Carriers(record, names[i]) # {}}
        IN  /\ (r.found_spec # None) <=> (hits # {})
            /\ hits # {} =>
                  r.found_spec = Some(<<record.specifications[Least(Carriers(record, names[Least(hits)]))],
                                        names[Least(hits)]>>)
            /\ (hits = {} /\ to_lowercase(r.spec_name) # "finish") => r.processed_value = None

C7_Witness ==
    /\ resolved # Pending
    /\ resolved.val.found_spec # None
    /\ resolved.val.found_spec[1][2] = "ID"
    /\ Carriers(record, "Inner Diameter") # {}
    /\ Least(Carriers(record, "Inner Diameter")) < Least(Carriers(record, "ID"))

(***************************************************************************)
(* Properties of the length converter.                                     *)
(***************************************************************************)
\* The decimal texts of p/d: the quotient when d divides p, else p/d to the
\* nearest five places (either neighbour at a tie), trailing zeros dropped.
FiveDigits(k) == zeros(5 - Len(to_string(k))) \o to_string(k)

PlacesText(whole, k) ==
    IF k = 0 THEN to_string(whole)
    ELSE IF k = 100000 THEN to_string(whole + 1)
    ELSE to_string(whole) \o "." \o trim_end_matches(FiveDigits(k), "0")

DecimalTexts(p, d) ==
    IF p % d = 0 THEN {to_string(p \div d)}
    ELSE LET scaled == (p % d) * 100000
             q == scaled \div d
             r == scaled % d
         IN  {PlacesText(p \div d, k) : k \in {j \in {q, q + 1} : (j = q /\ 2 * r <= d) \/ (j = q + 1 /\ 2 * r >= d)}}

\* The fraction texts with a denominator that is not zero, each with the
\* value p/d it denotes.
ValuedTexts ==
    {<<FractionText(f) \o "\"", f[1], f[2]>> : f \in {g \in Fractions : g[2] # 0}}
    \cup {<<to_string(w) \o sep \o FractionText(f) \o "\"", w * f[2] + f[1], f[2]>> :
             w \in MixedWholes, sep \in {"-", " "}, f \in {g \in Fractions : g[2] # 0}}

\* C8: an inch-marked fraction n/d, mixed number w-n/d or w n/d, or whole
\* number w is converted to the decimal text of its value, without a point
\* when integral and else to at most 5 places without trailing zeros; a text
\* with mm and no inch mark loses its mm.
C8_FractionToDecimal ==
    converted # Pending =>
        /\ \A t \in ValuedTexts : input = t[1] => converted.val \in DecimalTexts(t[2], t[3])
        /\ \A w \in WholeTexts : input = w \o "\"" => converted.val = w
        /\ (contains(input, "mm") /\ ~contains(input, "\"")) =>
              trim(converted.val) = trim(replace(input, "mm", ""))

\* What the converter parses: clean is the text without inch marks, spaces
\* turned into hyphens.
Clean(text) == replace(replace(text, "\"", ""), " ", "-")

IsNumber(text) == parse_f64(text) # None

IsFraction(text) ==
    /\ Len(split(text, "/")) = 2
    /\ IsNumber(split(text, "/")[1])
    /\ IsNumber(split(text, "/")[2])

HasZeroDenominator(text) ==
    /\ Len(split(text, "/")) = 2
    /\ IsNumber(split(text, "/")[2])
    /\ is_zero(parse_f64(split(text, "/")[2])[1])

IsMixed(text) ==
    \E i \in 1..Len(text) :
        /\ char_at(text, i) = "-"
        /\ IsNumber(SubSeq(text, 1, i - 1))
        /\ IsFraction(SubSeq(text, i + 1, Len(text)))

Malformed(text) == ~IsNumber(text) /\ ~IsFraction(text) /\ ~IsMixed(text)

\* C9: an inch-marked text that is no number, fraction or mixed number, or
\* whose fraction has the denominator zero, is returned without its inch
\* marks and with its spaces turned into hyphens; a text with neither an
\* inch mark nor mm is returned unchanged.
C9_MalformedLength ==
    converted # Pending =>
        /\ (contains(input, "\"") /\ (Malformed(Clean(input)) \/ HasZeroDenominator(Clean(input)))) =>
              converted.val = Clean(input)
        /\ (~contains(input, "\"") /\ ~contains(input, "mm")) => converted.val = input

C9_Witness ==
    /\ converted # Pending
    /\ contains(input, "\"")
    /\ HasZeroDenominator(Clean(input))
    /\ contains(input, " ")

(***************************************************************************)
(* Properties of the three calls together.                                 *)
(***************************************************************************)
HasEmptyValues(product) ==
    \E i \in 1..Len(product.specifications) : product.specifications[i].values = <<>>

\* The record with "" as the one value of each specification that has none.
WithBlankValues(product) ==
    [product EXCEPT !.specifications =
        [i \in 1..Len(product.specifications) |->
            IF product.specifications[i].values = <<>>
            THEN Specification(product.specifications[i].attribute, <<"">>)
            ELSE product.specifications[i]]]

FirstValueIs(product, attribute, text) ==
    /\ find_spec(product, attribute) # None
    /\ find_spec(product, attribute)[1].values # <<>>
    /\ find_spec(product, attribute)[1].values[1] = text

HasField(product, field) ==
    /\ TemplateOf(product) # None
    /\ \E i \in 1..Len(TemplateOf(product)[1].key_specs) : TemplateOf(product)[1].key_specs[i] = field

\* C10: each of the three calls returns a value on every record, and on the
\* degenerate records it is the best-effort one: the prefix alone when there
\* are no specifications, the fallback form when no template applies, the
\* name of the blank value when a values list is empty, the unconverted text
\* of a malformed length, the bare size of a metric thread without a pitch,
\* the key unknown for an unrecognised family, and an analysis that reports
\* the missing template.
C10_NoFailure ==
    /\ category.tag \in {"pending", "returned"}
    /\ name.tag \in {"pending", "returned"}
    /\ analysis.tag \in {"pending", "returned"}
    /\ category # Pending =>
          ((/\ NoKeyword(record.family_description, FamilyKeywords)
            /\ NoKeyword(record.product_category, CategoryKeywords)) => category.val = "unknown")
    /\ name # Pending =>
          /\ (TemplateOf(record) # None /\ record.specifications = <<>>) =>
                name.val = TemplateOf(record)[1].prefix
          /\ TemplateOf(record) = None => name.val = FallbackForm(record)
          /\ HasEmptyValues(record) => name.val = generate_name(WithBlankValues(record))
          /\ (HasField(record, "Length") /\ FirstValueIs(record, "Length", "1/0\"")) =>
                \E i \in 1..Len(tokens(name.val)) : tokens(name.val)[i] = "1/0"
          /\ (HasField(record, "Thread Size") /\ FirstValueIs(record, "Thread Size", "M8")) =>
                \E i \in 1..Len(tokens(name.val)) : tokens(name.val)[i] = "M8"
    /\ analysis # Pending =>
          /\ Len(analysis.val.specifications) = Len(record.specifications)
          /\ TemplateOf(record) = None =>
                /\ analysis.val.template_used = None
                /\ analysis.val.generated_name = FallbackForm(record)
                /\ Len(analysis.val.name_components) = 1
                /\ Len(analysis.val.suggestions) = 1

C10_Witness ==
    /\ category # Pending
    /\ name # Pending
    /\ analysis # Pending
    /\ HasEmptyValues(record)
    /\ HasField(record, "Length") /\ FirstValueIs(record, "Length", "1/0\"")
    /\ HasField(record, "Thread Size") /\ FirstValueIs(record, "Thread Size", "M8")

FirstValuesOnly(product) ==
    [product EXCEPT !.specifications =
        [i \in 1..Len(@) |-> Specification(@[i].attribute, take(@[i].values, 1))]]

\* The record with one more value after the values of every specification.
WithOneMoreValue(product) ==
    [product EXCEPT !.specifications =
        [i \in 1..Len(@) |-> Specification(@[i].attribute, @[i].values \o <<"Titanium">>)]]

\* C12: only the first value of a specification is consulted: a record, the
\* record without its values after the first and the record with another
\* value after them get the same category from determine_category and the
\* same name from generate_name.
C12_FirstValueOnly ==
    /\ category # Pending =>
          /\ category.val = determine_category(FirstValuesOnly(record))
          /\ category.val = determine_category(WithOneMoreValue(record))
    /\ name # Pending =>
          /\ name.val = generate_name(FirstValuesOnly(record))
          /\ name.val = generate_name(WithOneMoreValue(record))

C12_Witness ==
    /\ category = Returned("flanged_bearing")
    /\ name # Pending
    /\ starts_with(name.val, "FB-")
    /\ FirstValuesOnly(record) # record
    /\ find_spec(record, "Plain Bearing Type") # None

(***************************************************************************)
(* Properties of the analysis.                                             *)
(***************************************************************************)
\* C14: the analyzer never alters the canonical name: the generated_name
\* field of analyze_part(record) equals generate_name(record), and the
\* suggested name, when there is one, is generated_name followed by "-" and
\* the guessed finish abbreviation, which generated_name does not end with.
C14_AnalyzerKeepsName ==
    analysis # Pending =>
        /\ analysis.val.generated_name = generate_name(record)
        /\ analysis.val.suggested_name # None =>
              \E guess \in {suggest_finish_for_material(record)} :
                 /\ guess # None
                 /\ analysis.val.suggested_name[1] = analysis.val.generated_name \o "-" \o guess[1]
                 /\ ~ends_with(analysis.val.generated_name, "-" \o guess[1])

C14_Witness ==
    /\ analysis # Pending
    /\ analysis.val.generated_name = "BHS-SS188-1/4x20-0.75-HEX"
    /\ analysis.val.suggested_name = Some("BHS-SS188-1/4x20-0.75-HEX-PASS")

(***************************************************************************)
(* Properties of the subscription manager.                                 *)
(***************************************************************************)
\* The normalised parts tracked after a history of loaded lines and calls:
\* those loaded or added and not since removed.
RECURSIVE TrackedAfter(_)
TrackedAfter(log) ==
    IF log = <<>> THEN {}
    ELSE LET earlier == TrackedAfter(SubSeq(log, 1, Len(log) - 1))
             entry == log[Len(log)]
         IN  IF entry.call = "load" THEN earlier \cup load_from_file(<<entry.part_number>>)
             ELSE IF entry.call = "add_part" THEN earlier \cup {to_uppercase(trim(entry.part_number))}
             ELSE earlier \ {to_uppercase(trim(entry.part_number))}

\* C15: subscription set semantics: after any sequence of add_part and
\* remove_part calls the manager tracks exactly the normalised (trimmed,
\* uppercased) parts added and not since removed; add_part returned true
\* exactly when the normalised part was not tracked before the call,
\* remove_part exactly when it was; has_part answers by the normalised part,
\* so the same for every letter case; count is the number of distinct
\* normalised tracked parts.
C15_SetSemantics ==
    /\ manager # None => manager[1].parts = TrackedAfter(calls)
    /\ outcome # Pending =>
          LET normal == to_uppercase(trim(outcome.val.part_number))
              before == IF outcome.val.call \in {"add_part", "remove_part"}
                        THEN TrackedAfter(SubSeq(calls, 1, Len(calls) - 1))
                        ELSE TrackedAfter(calls)
          IN  /\ outcome.val.before = before
              /\ outcome.val.call = "add_part" => outcome.val.result = (normal \notin before)
              /\ outcome.val.call = "remove_part" => outcome.val.result = (normal \in before)
              /\ outcome.val.call = "has_part" =>
                    /\ outcome.val.result = (normal \in before)
                    /\ outcome.val.result = has_part(manager[1], to_lowercase(outcome.val.part_number))
                    /\ outcome.val.result = has_part(manager[1], to_uppercase(outcome.val.part_number))
              /\ outcome.val.call = "count" => outcome.val.result = Cardinality(before)

\* A part added in lower case after a duplicate add was refused, then asked
\* for and found.
C15_Witness ==
    /\ Len(calls) = 3
    /\ calls[1] = [call |-> "add_part", part_number |-> "91831A030"]
    /\ calls[2] = [call |-> "add_part", part_number |-> "91831a030"]
    /\ calls[3] = [call |-> "remove_part", part_number |-> " 91831A030 "]
    /\ outcome # Pending
    /\ outcome.val.call = "remove_part"
    /\ outcome.val.result = TRUE
    /\ manager[1].parts = {}

(***************************************************************************)
(* Properties of the detector's phrases.                                   *)
(***************************************************************************)
\* Phrases of the detector's tests that contain or are contained in another,
\* each with the key its test returns.
PhraseKeys ==
    {<<"ultra low socket head", "ultra_low_socket_head_screw">>,
     <<"low socket head", "low_socket_head_screw">>,
     <<"high socket head", "high_socket_head_screw">>,
     <<"standard socket head", "standard_socket_head_screw">>,
     <<"socket head", "socket_head_screw">>,
     <<"narrow flat head", "narrow_flat_head_screw">>,
     <<"undercut flat head", "undercut_flat_head_screw">>,
     <<"flat head", "flat_head_screw">>,
     <<"standard oval head", "standard_oval_head_screw">>,
     <<"oval head", "oval_head_screw">>,
     <<"wing thumb", "wing_thumb_screw">>,
     <<"button head", "button_head_screw">>,
     <<"screw", "generic_screw">>,
     <<"double clipped", "double_clipped_washer">>,
     <<"clipped", "clipped_washer">>,
     <<"knurled thumb nut", "knurled_thumb_nut">>,
     <<"machine screw nut", "machine_screw_nut">>}

\* The phrases a family description satisfies, and those of them that no
\* other satisfied phrase contains.
SatisfiedPhrases(family_lower) == {e \in PhraseKeys : contains(family_lower, e[1])}

MostSpecific(family_lower) ==
    {e \in SatisfiedPhrases(family_lower) :
        \A other \in SatisfiedPhrases(family_lower) : other = e \/ ~contains(other[1], e[1])}

\* C16: specific phrases win over the broader phrases they contain: when the
\* family description satisfies two or more phrases of the detector and one
\* of them contains all the others, determine_category returns the key of
\* that longest phrase.
C16_SpecificPhraseWins ==
    category # Pending =>
        \E family_lower \in {to_lowercase(record.family_description)} :
            \A e \in MostSpecific(family_lower) :
                (/\ Cardinality(SatisfiedPhrases(family_lower)) >= 2
                 /\ \A other \in SatisfiedPhrases(family_lower) : contains(e[1], other[1]))
                => category.val = e[2]

(***************************************************************************)
(* Properties of apply_template on the templates with a Finish field.      *)
(***************************************************************************)
\* The first value of the specification a template's lookup finds for a field.
ValueFound(product, template, field) ==
    LET found == find_specification_with_aliases(product, field, template)
    IN  IF found # None THEN unwrap_or(first(found[1][1].values), "") ELSE ""

\* The resolved finish value: the direct Finish value if present and
\* non-empty, else the finish prefix split off the Material text.
ResolvedFinishIn(product, template) ==
    IF ValueFound(product, template, "Finish") # "" THEN ValueFound(product, template, "Finish")
    ELSE unwrap_or(parse_material_and_finish(ValueFound(product, template, "Material"))[2], "")

FinishAbbreviation == abbreviation_or_basic(given_template[1], ResolvedFinishIn(record, given_template[1]))

FinishTokenAppended ==
    name.val = apply_template(record, WithoutFinish(given_template[1]), given_key)
               \o "-" \o FinishAbbreviation

\* C17 as stated: in every template that has a Finish field, whenever the
\* resolved finish value is non-empty and its abbreviation is not PASS, the
\* name ends with a finish token after the tokens of the other fields.
C17_FinishAppendedUnlessPass ==
    (/\ name # Pending
     /\ vec_contains(given_template[1].key_specs, "Finish")
     /\ ResolvedFinishIn(record, given_template[1]) # ""
     /\ FinishAbbreviation # "PASS") => FinishTokenAppended

\* C17 amended: the finish token is appended whenever the resolved finish
\* value is non-empty and its abbreviation is neither empty nor PASS; a
\* finish whose abbreviation is empty (a value of blanks or quotes) adds no
\* token.
C17_FinishAppendedUnlessPassOrBlank ==
    (/\ name # Pending
     /\ vec_contains(given_template[1].key_specs, "Finish")
     /\ ResolvedFinishIn(record, given_template[1]) # ""
     /\ FinishAbbreviation \notin {"", "PASS"}) => FinishTokenAppended

C17_Witness ==
    /\ name # Pending
    /\ given_key = "hex_nut"
    /\ ValueFound(record, given_template[1], "Finish") = ""
    /\ ResolvedFinishIn(record, given_template[1]) = "Zinc-Plated"
    /\ FinishTokenAppended
    /\ Len(tokens(name.val)) = 3

\* The material left after finish splitting, as the template's lookup finds it.
MaterialLeft(product, template) ==
    parse_material_and_finish(ValueFound(product, template, "Material"))[1]

KnownGrades == {"Grade 1", "Grade 2", "Grade 5", "Grade 8", "8.8", "10.9", "12.9"}

\* The known grades that the first value of the record's strength grade
\* specification names.
GradesNamed(product) ==
    LET grade_spec == find_spec(product, "Fastener Strength Grade/Class")
    IN  IF grade_spec = None \/ first(grade_spec[1].values) = None THEN {}
        ELSE {g \in KnownGrades : contains(first(grade_spec[1].values)[1], g)}

\* The name starts with the prefix and a given material token.
MaterialTokenIs(token) ==
    \E head \in {given_template[1].prefix \o "-" \o token} :
        \/ name.val = head
        \/ starts_with(name.val, head \o "-")

IsGradedSteel ==
    /\ name # Pending
    /\ vec_contains(given_template[1].key_specs, "Material")
    /\ \/ eq_ignore_ascii_case(MaterialLeft(record, given_template[1]), "Steel")
       \/ eq_ignore_ascii_case(MaterialLeft(record, given_template[1]), "Alloy Steel")
    /\ Cardinality(GradesNamed(record)) = 1

GradeUpgraded ==
    \E grade \in GradesNamed(record) :
        /\ MaterialTokenIs(abbreviation_or_basic(given_template[1], grade \o " Steel"))
        /\ ~MaterialTokenIs(abbreviation_or_basic(given_template[1], MaterialLeft(record, given_template[1])))

\* The templates whose material takes the bearing filler branch.
TakesFiller(template) ==
    /\ ends_with(template.prefix, "B")
    /\ \E p \in {"FSB", "SB", "BB"} : starts_with(template.prefix, p)

\* C18 as stated: in every template, when the material left after finish
\* splitting is Steel or Alloy Steel (ignoring case) and the first value of
\* the record's Fastener Strength Grade/Class specification names a known
\* grade, the material token of the name is the abbreviation of the grade
\* label and not the abbreviation of the bare material.
C18_SteelGradeUpgrade == IsGradedSteel => GradeUpgraded

\* C18 amended: the same in every template but those whose prefix ends with
\* B and starts with FSB, SB or BB (the sleeve, flanged sleeve and ball
\* bearing templates): there the material takes the filler branch and the
\* token is that of the bare material.
C18_SteelGradeUpgradeOutsideFiller ==
    /\ (IsGradedSteel /\ ~TakesFiller(given_template[1])) => GradeUpgraded
    /\ (IsGradedSteel /\ TakesFiller(given_template[1])) =>
          MaterialTokenIs(abbreviation_or_basic(given_template[1], MaterialLeft(record, given_template[1])))

C18_Witness ==
    /\ IsGradedSteel
    /\ given_key = "hex_nut"
    /\ MaterialLeft(record, given_template[1]) = "Alloy Steel"
    /\ GradesNamed(record) = {"12.9"}
    /\ GradeUpgraded
    /\ name.val = "HN-S12.9-BO"

\* The raw thread size of the record and the first value of its threads per
\* inch specification, if it has one.
RawThreadSize == ValueFound(record, given_template[1], "Thread Size")

ThreadsPerInchOf(product) ==
    LET tpi == find(product.specifications,
                    {i \in 1..Len(product.specifications) :
                        contains(product.specifications[i].attribute, "Threads per Inch")})
    IN  IF tpi = None THEN None ELSE first(tpi[1].values)

HasThreadToken ==
    /\ name # Pending
    /\ vec_contains(given_template[1].key_specs, "Thread Size")
    /\ RawThreadSize # ""

\* The token the Thread Size field puts after the prefix.
ThreadToken == SubSeq(name.val, Len(given_template[1].prefix) + 2, Len(name.val))

\* C19: thread-size normalisation: the thread token holds no hyphen; without
\* a threads per inch value it is the raw value with each hyphen replaced by
\* x and a leading "No. " removed, and with one it is <size>x<threads per
\* inch>, where <size> is the thread size with a leading "No. " removed.
C19_ThreadNormalised ==
    HasThreadToken =>
        /\ ~contains(ThreadToken, "-")
        /\ \E size \in {unwrap_or(strip_prefix(RawThreadSize, "No. "), RawThreadSize)} :
              IF ThreadsPerInchOf(record) = None
              THEN ThreadToken = replace(size, "-", "x")
              ELSE \/ ThreadToken = size \o "x" \o trim(ThreadsPerInchOf(record)[1])
                   \/ ThreadToken = replace(size, "-", "x") \o "x" \o trim(ThreadsPerInchOf(record)[1])

\* The raw value of the record's For Screw Size specification.
RawScrewSize == ValueFound(record, given_template[1], "For Screw Size")

HasScrewSizeField ==
    /\ name # Pending
    /\ vec_contains(given_template[1].key_specs, "For Screw Size")
    /\ find_specification_with_aliases(record, "For Screw Size", given_template[1]) # None
    /\ find_spec(record, "Material") = None

\* The name is the prefix followed by a token, or the prefix alone when the
\* token is empty.
SoleTokenIs(token) ==
    name.val = IF token = "" THEN given_template[1].prefix ELSE given_template[1].prefix \o "-" \o token

\* C20: For Screw Size is context-sensitive: in a template of the washer
\* family the token is the dictionary entry for the raw value, else
\* abbreviate_value of the raw value, with no conversion to a decimal; in
\* every other template it is the dictionary entry for
\* convert_length_to_decimal of the raw value, else that decimal string
\* itself.
C20_ForScrewSizeByContext ==
    HasScrewSizeField =>
        IF given_key \in DOMAIN washer_templates
        THEN SoleTokenIs(unwrap_or(get(given_template[1].spec_abbreviations, RawScrewSize),
                                   abbreviate_value(RawScrewSize)))
        ELSE \E decimal \in {convert_length_to_decimal(RawScrewSize)} :
                SoleTokenIs(unwrap_or(get(given_template[1].spec_abbreviations, decimal), decimal))

C20_Witness ==
    /\ HasScrewSizeField
    /\ RawScrewSize = "1/4\""
    /\ given_key = "flat_washer"
    /\ name.val = "FW-1/4"
    /\ apply_template(record, category_templates["unthreaded_spacer"], "unthreaded_spacer") = "SP-0.25"

(***************************************************************************)
(* Properties of abbreviate_value.                                         *)
(***************************************************************************)
StartsWithDigit(value) == value # "" /\ is_ascii_digit(char_at(value, 1))

StartsWithMAndDigit(value) ==
    Len(value) >= 2 /\ char_at(value, 1) = "M" /\ is_ascii_digit(char_at(value, 2))

QuotesRemoved(value) == replace(value, "\"", "")

\* C21 as stated: for every value that contains x, or starts with M followed
\* by digits, or starts with a digit and contains /, abbreviate_value returns
\* the value with only its double quotes removed.
C21_ThreadsLegible ==
    (/\ converted # Pending
     /\ \/ contains(input, "x")
        \/ StartsWithMAndDigit(input)
        \/ (StartsWithDigit(input) /\ contains(input, "/")))
    => converted.val = QuotesRemoved(input)

\* C21 amended: for every value that contains x and also contains /, starts
\* with M or starts with a digit, abbreviate_value returns the value with
\* only its double quotes removed.
C21_ThreadsWithXLegible ==
    (/\ converted # Pending
     /\ contains(input, "x")
     /\ \/ contains(input, "/")
        \/ starts_with(input, "M")
        \/ StartsWithDigit(input))
    => converted.val = QuotesRemoved(input)

C21_Witness ==
    /\ input = "M8x1.25"
    /\ converted = Returned("M8x1.25")

IsThreadDesignation(value) ==
    /\ contains(value, "x")
    /\ (contains(value, "/") \/ starts_with(value, "M") \/ StartsWithDigit(value))

CleanValue(value) == replace(replace(value, "\"", ""), " ", "")

IsLowercase(c) == c \in DOMAIN UpperOf

NoLowercaseQuoteOrSpace(text) ==
    \A i \in 1..Len(text) : ~IsLowercase(char_at(text, i)) /\ char_at(text, i) \notin {"\"", " "}

\* C22: for every value that is not a thread designation, abbreviate_value
\* returns n when the value is "No. n"; otherwise the result is the value
\* without double quotes and spaces, uppercased, whole when it has at most 3
\* characters and cut to its first 4 when longer, so that it has at most 4
\* characters and no lowercase letter, quote or space.
C22_OrdinaryValues ==
    (converted # Pending /\ ~IsThreadDesignation(input)) =>
        IF starts_with(input, "No. ")
        THEN converted.val = SubSeq(input, 5, Len(input))
        ELSE /\ converted.val = to_uppercase(IF Len(CleanValue(input)) <= 3 THEN CleanValue(input)
                                             ELSE take(CleanValue(input), 4))
             /\ Len(converted.val) <= 4
             /\ NoLowercaseQuoteOrSpace(converted.val)

(***************************************************************************)
(* Properties of fallback_name.                                            *)
(***************************************************************************)
\* The positions at which a word of the text starts.
WordStarts(text) ==
    {i \in 1..Len(text) : ~is_whitespace(char_at(text, i))
                           /\ (i = 1 \/ is_whitespace(char_at(text, i - 1)))}

\* The position at which the word starting at i ends.
WordEnd(text, i) ==
    CHOOSE j \in i..Len(text) :
        /\ \A k \in i..j : ~is_whitespace(char_at(text, k))
        /\ (j = Len(text) \/ is_whitespace(char_at(text, j + 1)))

\* The n-th word of the text.
Word(text, n) ==
    the({SubSeq(text, i, WordEnd(text, i)) :
         i \in {k \in WordStarts(text) : Cardinality({h \in WordStarts(text) : h < k}) = n - 1}})

\* The first four words of the text, fewer if there are fewer, joined by "-".
FirstFourWordsJoined(text) ==
    the({IF n = 1 THEN Word(text, 1)
         ELSE IF n = 2 THEN Word(text, 1) \o "-" \o Word(text, 2)
         ELSE IF n = 3 THEN Word(text, 1) \o "-" \o Word(text, 2) \o "-" \o Word(text, 3)
         ELSE Word(text, 1) \o "-" \o Word(text, 2) \o "-" \o Word(text, 3) \o "-" \o Word(text, 4) :
         n \in {Cardinality(WordStarts(text))}})

\* C23: for every record, fallback_name returns the first four
\* whitespace-separated words of family_description (fewer if there are
\* fewer), joined by "-", uppercased, with every comma removed, followed by
\* "-" and the unmodified part_number; when family_description has no words
\* it returns "UNKNOWN-" followed by the part_number.
C23_FallbackName ==
    name # Pending =>
        IF WordStarts(record.family_description) = {}
        THEN name.val = "UNKNOWN-" \o record.part_number
        ELSE name.val = replace(to_uppercase(FirstFourWordsJoined(record.family_description)), ",", "")
                        \o "-" \o record.part_number

C23_Witness ==
    /\ record.family_description = "socket,\td e f"
    /\ name = Returned("SOCKET-D-E-F-91251A540")

(***************************************************************************)
(* The analyzer against the name assembler.                                *)
(***************************************************************************)
\* The specification the assembler resolves a field of the template to, if any.
AssemblerFinds(product, template, field) ==
    the({IF found = None THEN None ELSE Some(found[1][1]) :
         found \in {find_specification_with_aliases(product, field, template)}})

\* C24: a logical field of key_specs is listed in missing_specs if and only
\* if find_specification_with_aliases finds no specification for it, and a
\* specification is flagged used_in_name if and only if the assembler
\* resolves some key_specs field to it.
C24_AnalyzerResolvesAsAssembler ==
    (analysis # Pending /\ analysis.val.template_used # None) =>
        \E template \in {get_template(analysis.val.detected_type)[1]} :
            /\ \A n \in 1..Len(template.key_specs) :
                  vec_contains(analysis.val.missing_specs, template.key_specs[n])
                  <=> AssemblerFinds(record, template, template.key_specs[n]) = None
            /\ \A i \in 1..Len(record.specifications) :
                  analysis.val.specifications[i].used_in_name
                  <=> \E n \in 1..Len(template.key_specs) :
                         AssemblerFinds(record, template, template.key_specs[n])
                         = Some(record.specifications[i])

\* C25: analyze_part returns a suggested_name only when the template's
\* key_specs contain "Finish" and the assembler resolved no finish for the
\* record, neither a direct Finish value nor a finish extracted from the
\* Material text.
C25_SuggestionOnlyForUnresolvedFinish ==
    (analysis # Pending /\ analysis.val.suggested_name # None) =>
        \E template \in {get_template(analysis.val.detected_type)} :
            /\ template # None
            /\ vec_contains(template[1].key_specs, "Finish")
            /\ ResolvedFinishIn(record, template[1]) = ""

(***************************************************************************)
(* The structure of the names apply_template builds.                       *)
(***************************************************************************)
\* C26: the name is the template prefix followed by at most one token per
\* key_specs field, so that splitting the name on "-" yields the prefix
\* first and at most 1 + |key_specs| tokens.
C26_NameSplitsIntoFields ==
    name # Pending =>
        /\ tokens(name.val)[1] = given_template[1].prefix
        /\ Len(tokens(name.val)) <= 1 + Len(given_template[1].key_specs)

(***************************************************************************)
(* Classification and letter case.                                         *)
(***************************************************************************)
\* The record with its descriptions and the first value of each
\* specification in lowercase; records that differ only in the letter case
\* of these have the same one.
InLowercase(product) ==
    ProductDetail(product.part_number,
                  to_lowercase(product.detail_description),
                  to_lowercase(product.family_description),
                  to_lowercase(product.product_category),
                  [i \in 1..Len(product.specifications) |->
                      Specification(product.specifications[i].attribute,
                                    [k \in 1..Len(product.specifications[i].values) |->
                                        IF k = 1 THEN to_lowercase(product.specifications[i].values[k])
                                        ELSE product.specifications[i].values[k]])])

\* C27: two records that differ only in the letter case of
\* family_description, product_category, detail_description or the first
\* value of the bearing type specification get the same category key: the
\* key of a record is the key of the record written in lowercase.
C27_CaseInsensitive ==
    category # Pending => category.val = determine_category(InLowercase(record))

C27_Witness ==
    /\ record.family_description = "MOUNTED BALL BEARING"
    /\ record.detail_description = "LOW Profile"
    /\ record.specifications = <<Specification("Mounted Bearing Type", <<"two-bolt flange">>)>>
    /\ category = Returned("low_profile_flange_mounted_ball_bearing")

(***************************************************************************)
(* Converting a converted length.                                          *)
(***************************************************************************)
\* C28: convert_length_to_decimal is idempotent: converting the result of a
\* conversion again returns it unchanged.
C28_ConversionIdempotent ==
    converted # Pending => convert_length_to_decimal(converted.val) = converted.val

(***************************************************************************)
(* The keys of the waterfalls.                                             *)
(***************************************************************************)
\* C29: no category branch is shadowed: every key that appears as a result
\* in determine_category or its sub-type waterfalls is returned by
\* determine_category for at least one record.
C29_NoBranchShadowed ==
    category # Pending =>
        \A key \in ResultKeys :
            key = category.val \/ \E product \in KeyRecords : determine_category(product) = key

(***************************************************************************)
(* The subscription file read back.                                        *)
(***************************************************************************)
\* C30: after any sequence of successful add_part, remove_part,
\* import_from_file and clear calls, a manager newly constructed on the same
\* file tracks exactly the parts the set in memory held after the last call.
C30_RoundTrip ==
    (outcome # Pending /\ outcome.val.call = "new") => outcome.val.result = manager[1].parts

=============================================================================
